---- MODULE Spec2Model ----
(***************************************************************************)
(* ToyCComp: a verification model of the lexer's lookahead ring buffer,    *)
(* the symbol table, the scratch-register allocator, the statement parser  *)
(* and the code generator.                                                  *)
(*                                                                         *)
(* Each subsystem has its own specification (SpecScan, SpecLex, ...) over  *)
(* the same variables; a specification leaves the variables of the other   *)
(* subsystems at their initial values.                                     *)
(***************************************************************************)
EXTENDS Integers, Sequences, FiniteSets, TLC

VARIABLES
    srclen,      \* input file: number of lexemes before end of file
    unknown,     \* input file: positions holding a character that starts no token
    scanner,     \* Scanner_t: nread (file position), putback_tok_buffer, buffer_head, buffer_tail, buffer_size
    last,        \* the last lexer call and what it handed to its caller
    nscanned,    \* number of tokens handed out by scan/match so far
    cg,          \* statics of asm.c and codegen.c: free_reg, label_count, bss_symbols, return_called_flag, out (emitted lines)
    holds,       \* register handles held by the caller of the assembly writer
    alast,       \* the last assembly-writer call: name, returned handle, allocate_register calls it made
    sym,         \* statics of symtab.c: global_symbols (DArray_t), global_symbols_index; inited once main has called the initialiser
    added,       \* history: name and returned index of every successful symtab_add_global_symbol, in order
    slast,       \* the last symbol-table call and its result
    cfg,         \* the source program's shape: statement kinds it uses, bounds on its size
    pc,          \* position of main: "start", "parse", "codegen", "done"
    ast,         \* the arena of ASTNode_t objects; node k is ast[k]
    parser,      \* statics and call stack of the parser: stack, in_loop, root, head, decl_current_func
    ghost,       \* history of the parse: counters, the loop frame around each break, the node of each loop frame
    gen,         \* code generator: next declaration to generate, logs of the declarations generated so far
    tk,          \* token-level parse of one expression or declaration: upcoming tokens, read position, result
    dt,          \* the Datatype_t objects at hand: target and value of a check, the type under a chain of & and *
    errors,      \* number of [ERROR] lines printed by debug_print
    status       \* process status: "running", "exit0", "exit1", "crash"

scanVars == <<srclen, unknown, scanner, last, nscanned>>
asmVars == <<cg, holds, alast>>
symVars == <<sym, added, slast>>
compVars == <<cfg, pc, ast, parser, ghost, gen, dt, tk>>
procVars == <<errors, status>>

----------------------------------------------------------------------------
(* Bounds *)

MaxSrc == 258        \* lexemes in the long input of SpecScan
MaxLexSrc == 4       \* lexemes in the short inputs of SpecLex
MaxCache == 2        \* tokens the caller keeps in the lookahead buffer at once
MaxDirectPos == 3    \* file positions up to which a scan may read the file with the buffer empty
MaxLabels == 2       \* labels minted in SpecAsm
MaxSyms == 258       \* symbols in the table of SpecSym, built-ins included
MaxKindPos == 6      \* table indices below which a symbol may be a function as well as a variable
MaxProbePos == 8     \* table sizes up to which lookups and re-adds are explored before the array is full
MaxBreakStmts == 4   \* statements in a program of SpecBreak
MaxBreakDepth == 4   \* nesting of blocks in a program of SpecBreak, the function's block included
MaxBreakFuncs == 2   \* functions in a program of SpecBreak
MaxStmts == 3        \* statements in a program of SpecStmt
MaxDepth == 3        \* nesting of blocks in a program of SpecStmt, the function's block included
MaxFuncs == 2        \* functions in a program of SpecStmt
MaxTypeLevel == 2    \* pointer levels of the two types handed to datatype_check_assign_expr_type in SpecType
MaxPtr == 129        \* longest chain of datatype_get_pointer_of calls in SpecType
MaxArrSize == 2      \* elements of the arrays a program declares
MaxProgStmts == 3    \* statements in a program of SpecProg
MaxProgDepth == 2    \* nesting of blocks in a program of SpecProg, the function's block included
MaxProgFuncs == 1    \* functions in a program of SpecProg
MaxArrStmts == 2     \* statements in a program of SpecArr
MaxArrDepth == 2     \* nesting of blocks in a program of SpecArr, the function's block included
MaxArrFuncs == 1     \* functions in a program of SpecArr
MaxRetStmts == 3     \* statements in a program of SpecRet
MaxRetDepth == 2     \* nesting of blocks in a program of SpecRet, the function's block included
MaxParseParams == 2
MaxParseBody == 1
MaxPtrStmts == 2
MaxPtrDepth == 2
MaxPtrFuncs == 1
MaxRetFuncs == 2     \* functions in a program of SpecRet
MaxToks == 4         \* upcoming tokens at an expression entry in SpecDecl
MaxDeclIds == 2      \* identifiers of a declaration in SpecDecl

(* Program constants *)

MAX_PUTBACK_BUFFER_SIZE == 255
GLOBAL_REG_COUNT == 4
GLOBAL_SYMBOL_SIZE == 255
asm_RAX == 4
asm_NoReg == 0 - 1

----------------------------------------------------------------------------
(* Process-level helpers *)

\* debug_print(SEV_ERROR, ...) prints one line and returns to its caller.
debug_print(n) == n + 1

----------------------------------------------------------------------------
(* Lexer *)

Tok(i) == [type |-> "TOK_INTLIT", int_value |-> i]
EmptyTok == [type |-> "TOK_EMPTY", int_value |-> 0]
EofTok == [type |-> "TOK_EOF", int_value |-> 0]

\* contents a token variable can have when __scanner_scan leaves it unwritten
StaleToks == {EmptyTok, EofTok, [type |-> "TOK_SEMICOLON", int_value |-> 0]}

\* the lexeme class the raw reader meets at file position i (1-based)
SrcItem(len, unk, i) ==
    IF i > len THEN "eof"
    ELSE IF i \in unk THEN "unknown"
    ELSE "token"

scanner_init ==
    [nread |-> 0,
     putback_tok_buffer |-> [j \in 0..(MAX_PUTBACK_BUFFER_SIZE - 1) |-> EmptyTok],
     buffer_head |-> 0,
     buffer_tail |-> 1,
     buffer_size |-> 0]

\* __scanner_scan: the set of outcomes [sc, tok, ret, err]; `stale` is the set
\* of values the caller's token variable can hold before the call.
scanner_scan_raw(sc, len, unk, ignore_cache, stale) ==
    IF ~ignore_cache /\ sc.buffer_size > 0
    THEN {[sc |-> [sc EXCEPT !.buffer_head = (sc.buffer_head + 1) % MAX_PUTBACK_BUFFER_SIZE,
                             !.buffer_size = sc.buffer_size - 1],
           tok |-> sc.putback_tok_buffer[sc.buffer_head],
           ret |-> TRUE, err |-> 0]}
    ELSE LET item == SrcItem(len, unk, sc.nread + 1) IN
         IF item = "eof"
         THEN {[sc |-> sc, tok |-> EofTok, ret |-> FALSE, err |-> 0]}
         ELSE IF item = "token"
         THEN {[sc |-> [sc EXCEPT !.nread = sc.nread + 1],
                tok |-> Tok(sc.nread + 1), ret |-> TRUE, err |-> 0]}
         ELSE \* "Unkown token": the error line is printed, tok is left as it was
              {[sc |-> [sc EXCEPT !.nread = sc.nread + 1],
                tok |-> t, ret |-> TRUE, err |-> 1] : t \in stale}

\* scanner_putback: the outcomes of storing tok at slot buffer_tail - 1.
\* Slot -1 lies outside putback_tok_buffer: the store lands in the bytes in
\* front of the Scanner_t allocation, so the buffer keeps its contents and
\* the process either goes on or is killed.
scanner_putback(sc, tok) ==
    LET slot == sc.buffer_tail - 1
        moved == [sc EXCEPT !.buffer_tail = (sc.buffer_tail + 1) % MAX_PUTBACK_BUFFER_SIZE,
                            !.buffer_size = sc.buffer_size + 1]
    IN IF slot \in 0..(MAX_PUTBACK_BUFFER_SIZE - 1)
       THEN {[sc |-> [moved EXCEPT !.putback_tok_buffer[slot] = tok], crash |-> FALSE, slot |-> slot]}
       ELSE {[sc |-> moved, crash |-> c, slot |-> slot] : c \in BOOLEAN}

\* the callers stop asking for tokens once one call has handed them TOK_EOF
Running == status = "running" /\ last.tok.type # "TOK_EOF"

\* scanner_scan(scanner, &tok)
Scan ==
    /\ Running
    /\ (scanner.buffer_size = 0 /\ scanner.nread < srclen) => scanner.nread < MaxDirectPos
    /\ \E o \in scanner_scan_raw(scanner, srclen, unknown, FALSE, StaleToks) :
          /\ scanner' = o.sc
          /\ last' = [op |-> "scan", tok |-> o.tok, ret |-> o.ret, slot |-> 0 - 2]
          /\ nscanned' = IF o.ret THEN nscanned + 1 ELSE nscanned
          /\ errors' = IF o.err = 1 THEN debug_print(errors) ELSE errors
    /\ UNCHANGED <<srclen, unknown, status>>
    /\ UNCHANGED <<asmVars, symVars, compVars>>

\* scanner_match(scanner, what): what is the type the caller expects
Match ==
    /\ Running
    /\ (scanner.buffer_size = 0 /\ scanner.nread < srclen) => scanner.nread < MaxDirectPos
    /\ \E o \in scanner_scan_raw(scanner, srclen, unknown, FALSE, StaleToks),
          what \in {"TOK_INTLIT", "TOK_SEMICOLON"} :
          /\ scanner' = o.sc
          /\ last' = [op |-> "match", tok |-> o.tok, ret |-> o.ret, slot |-> 0 - 2]
          /\ nscanned' = IF o.ret THEN nscanned + 1 ELSE nscanned
          /\ IF o.tok.type = what
             THEN /\ errors' = IF o.err = 1 THEN debug_print(errors) ELSE errors
                  /\ status' = status
             ELSE /\ errors' = debug_print(IF o.err = 1 THEN debug_print(errors) ELSE errors)
                  /\ status' = "exit1"
    /\ UNCHANGED <<srclen, unknown>>
    /\ UNCHANGED <<asmVars, symVars, compVars>>

\* scanner_peek(scanner, &tok)
Peek ==
    /\ Running
    /\ IF scanner.buffer_size = 0
       THEN \E o \in scanner_scan_raw(scanner, srclen, unknown, FALSE, StaleToks) :
            \E p \in scanner_putback(o.sc, o.tok) :
               /\ scanner' = p.sc
               /\ last' = [op |-> "peek", tok |-> o.tok, ret |-> TRUE, slot |-> p.slot]
               /\ errors' = IF o.err = 1 THEN debug_print(errors) ELSE errors
               /\ status' = IF p.crash THEN "crash" ELSE status
       ELSE /\ last' = [op |-> "peek", tok |-> scanner.putback_tok_buffer[scanner.buffer_head],
                        ret |-> TRUE, slot |-> 0 - 2]
            /\ UNCHANGED <<scanner, errors, status>>
    /\ UNCHANGED <<srclen, unknown, nscanned>>
    /\ UNCHANGED <<asmVars, symVars, compVars>>

\* scanner_cache_tok(scanner)
CacheTok ==
    /\ Running
    /\ scanner.buffer_size < MaxCache
    /\ \E o \in scanner_scan_raw(scanner, srclen, unknown, TRUE, StaleToks) :
       \E p \in scanner_putback(o.sc, o.tok) :
          /\ scanner' = p.sc
          /\ last' = [op |-> "cache", tok |-> o.tok, ret |-> TRUE, slot |-> p.slot]
          /\ errors' = IF o.err = 1 THEN debug_print(errors) ELSE errors
          /\ status' = IF p.crash THEN "crash" ELSE status
    /\ UNCHANGED <<srclen, unknown, nscanned>>
    /\ UNCHANGED <<asmVars, symVars, compVars>>

vars == <<scanVars, asmVars, symVars, compVars, procVars>>

----------------------------------------------------------------------------
(* Assembly writer (asm.c).  The operators thread a record g that holds the *)
(* statics of asm.c and codegen.c together with the process status.         *)

VarNames == {"x", "y"}
RegSizes == {8, 16, 32, 64}

cg_init ==
    [free_reg |-> [i \in 0..(GLOBAL_REG_COUNT - 1) |-> 1],
     label_count |-> 0,
     bss_symbols |-> <<>>,
     return_called_flag |-> FALSE,
     out |-> <<>>]

\* g: cg plus the process status, the error count and the log of
\* allocate_register calls made since the log was last cleared
Pack(c, st, er) ==
    [free_reg |-> c.free_reg, label_count |-> c.label_count, bss_symbols |-> c.bss_symbols,
     return_called_flag |-> c.return_called_flag, out |-> c.out,
     status |-> st, errors |-> er, allocs |-> <<>>]

Unpack(g) ==
    [free_reg |-> g.free_reg, label_count |-> g.label_count, bss_symbols |-> g.bss_symbols,
     return_called_flag |-> g.return_called_flag, out |-> g.out]

\* debug_print(SEV_ERROR, ...); exit(code);
Fatal(g, code) ==
    IF g.status # "running" THEN g
    ELSE [g EXCEPT !.errors = debug_print(g.errors),
                   !.status = IF code = 0 THEN "exit0" ELSE "exit1"]

\* fprintf(gen->file, ...)
Emit(g, line) == IF g.status # "running" THEN g ELSE [g EXCEPT !.out = Append(g.out, line)]

\* a scan that prefers the highest free slot
alloc_scan_high(f, i) ==
    LET free == {j \in i..(GLOBAL_REG_COUNT - 1) : f[j] # 0} IN
    IF free = {} THEN asm_NoReg ELSE CHOOSE j \in free : \A k \in free : k <= j

RECURSIVE alloc_scan(_, _)
\* the for loop of allocate_register, from index i on
alloc_scan(f, i) ==
    IF i >= GLOBAL_REG_COUNT THEN asm_NoReg
    ELSE IF f[i] # 0 THEN i
    ELSE alloc_scan(f, i + 1)

allocate_register(g) ==
    IF g.status # "running" THEN [g |-> g, r |-> asm_NoReg]
    ELSE LET i == alloc_scan(g.free_reg, 0) IN
         IF i # asm_NoReg
         THEN LET f2 == [g.free_reg EXCEPT ![i] = 0] IN
              [g |-> [g EXCEPT !.free_reg = f2,
                               !.allocs = Append(g.allocs, [pre |-> g.free_reg, r |-> i, post |-> f2, fatal |-> FALSE])],
               r |-> i]
         ELSE LET gf == Fatal(g, 1) IN
              [g |-> [gf EXCEPT !.allocs = Append(g.allocs, [pre |-> g.free_reg, r |-> asm_NoReg, post |-> g.free_reg, fatal |-> TRUE])],
               r |-> asm_NoReg]

\* free_register without its test of free_reg[r]
free_register_unchecked(g, r) ==
    IF g.status # "running" THEN g
    ELSE IF r >= GLOBAL_REG_COUNT THEN Fatal(g, 1)
    ELSE IF r < 0 THEN [g EXCEPT !.status = "crash"]
    ELSE [g EXCEPT !.free_reg[r] = 1]

free_register(g, r) ==
    IF g.status # "running" THEN g
    ELSE IF r >= GLOBAL_REG_COUNT THEN Fatal(g, 1)
    ELSE IF r < 0 THEN [g EXCEPT !.status = "crash"]     \* free_reg[-1]: out of bounds
    ELSE IF g.free_reg[r] # 0 THEN Fatal(g, 1)
    ELSE [g EXCEPT !.free_reg[r] = 1]

asm_init_register(g, value) ==
    LET a == allocate_register(g) IN
    [g |-> Emit(a.g, <<"mov", a.r, value>>), r |-> a.r]

asm_set_register(g, dest, src, size, free_src) ==
    LET g1 == Emit(g, <<"mov_reg", dest, src, size>>) IN
    IF free_src THEN free_register(g1, src) ELSE g1

\* asm_add, asm_sub, asm_mul: one instruction, then the right operand is freed
asm_arith(g, mnemonic, r1, r2) ==
    [g |-> free_register(Emit(g, <<mnemonic, r1, r2>>), r2), r |-> r1]

asm_div(g, r1, r2) ==
    LET g1 == Emit(g, <<"mov_reg", asm_RAX, r1, 64>>)
        g2 == Emit(g1, <<"cqo">>)
        g3 == Emit(g2, <<"idiv", r2>>)
        g4 == Emit(g3, <<"mov_reg", r1, asm_RAX, 64>>)
    IN [g |-> free_register(g4, r2), r |-> r1]

asm_comp(g, r1, r2, func) ==
    LET g1 == Emit(g, <<"cmp", r1, r2>>)
        g2 == Emit(g1, <<func, r1>>)
        g3 == Emit(g2, <<"movzx", r1, r1>>)
    IN [g |-> free_register(g3, r2), r |-> r1]

asm_jmp_with_cond(g, r1, comp_val, func, label_number) ==
    LET g1 == Emit(g, <<"cmp_imm", r1, comp_val>>)
        g2 == Emit(g1, <<func, label_number>>)
    IN free_register(g2, r1)

asm_jmp(g, lbl) == Emit(g, <<"jmp", lbl>>)

\* get_bss_symbol: index of the first entry named name, 0 for NULL
get_bss_symbol(g, name) ==
    LET hits == {i \in 1..Len(g.bss_symbols) : g.bss_symbols[i].symbol_name = name}
    IN IF hits = {} THEN 0 ELSE CHOOSE i \in hits : \A j \in hits : i <= j

asm_add_global_var(g, var_name, size, number_of_elements) ==
    IF g.status # "running" THEN g
    ELSE LET n == IF number_of_elements = 0 THEN 1 ELSE number_of_elements IN
         IF get_bss_symbol(g, var_name) # 0
         THEN Fatal(g, 0)
         ELSE [g EXCEPT !.bss_symbols = Append(g.bss_symbols,
                   [symbol_name |-> var_name, size |-> size, number_of_items |-> n])]

asm_set_global_var(g, var_name, r) ==
    LET k == get_bss_symbol(g, var_name) IN
    IF g.status # "running" THEN g
    ELSE IF k = 0 THEN Fatal(g, 1)
    ELSE free_register(Emit(g, <<"store_global", var_name, r, g.bss_symbols[k].size>>), r)

asm_get_global_var(g, var_name) ==
    LET a == allocate_register(g)
        k == get_bss_symbol(a.g, var_name)
    IN IF a.g.status # "running" THEN a
       ELSE IF k = 0 THEN [g |-> Fatal(a.g, 1), r |-> asm_NoReg]
       ELSE [g |-> Emit(Emit(a.g, <<"xor", a.r, a.r>>),
                        <<"load_global", a.r, var_name, a.g.bss_symbols[k].size>>),
             r |-> a.r]

asm_address_of(g, var_name) ==
    LET a == allocate_register(g) IN
    [g |-> Emit(a.g, <<"lea", a.r, var_name>>), r |-> a.r]

asm_load_mem(g, addr, size) ==
    LET a == allocate_register(g)
        g1 == IF size \in RegSizes THEN Emit(a.g, <<"load_mem", a.r, addr, size>>) ELSE a.g
    IN [g |-> free_register(g1, addr), r |-> a.r]

asm_store_mem(g, addr, val, size) ==
    LET g1 == IF size \in RegSizes THEN Emit(g, <<"store_mem", addr, val, size>>) ELSE g
    IN free_register(free_register(g1, val), addr)

\* a label counter that is read and not advanced
asm_generate_label_stuck(g) == [g |-> g, lbl |-> g.label_count]

asm_generate_label(g) ==
    IF g.status # "running" THEN [g |-> g, lbl |-> g.label_count]
    ELSE [g |-> [g EXCEPT !.label_count = g.label_count + 1], lbl |-> g.label_count]

asm_lbl(g, lbl_id) == Emit(g, <<"label", lbl_id>>)

asm_generate_function_prologue(g, func_name) ==
    Emit(Emit(Emit(Emit(Emit(g, <<"section_text">>), <<"global", func_name>>),
                   <<"name", func_name>>), <<"push_rbp">>), <<"mov_rbp_rsp">>)

asm_generate_function_epilogue(g) == Emit(Emit(g, <<"pop_rbp">>), <<"ret">>)

\* the register r is not released (free_register(r) is commented out)
asm_generate_func_return(g, r, size) ==
    IF size \in RegSizes THEN Emit(g, <<"mov_reg", asm_RAX, r, size>>) ELSE g

asm_generate_func_call(g, func_name, arg1, need_return) ==
    LET a == allocate_register(g)
        g1 == IF arg1 # asm_NoReg THEN Emit(a.g, <<"mov_rdi", arg1>>) ELSE a.g
        g2 == Emit(g1, <<"call", func_name>>)
        g3 == Emit(g2, <<"mov_reg", a.r, asm_RAX, 64>>)
        g4 == IF arg1 # asm_NoReg THEN free_register(g3, arg1) ELSE g3
    IN IF need_return THEN [g |-> g4, r |-> a.r]
       ELSE [g |-> free_register(g4, a.r), r |-> asm_NoReg]

----------------------------------------------------------------------------
(* The assembly writer driven call by call (SpecAsm).  cg.out holds the     *)
(* lines of the last call only.                                             *)

AsmRunning == status = "running"

G0 == Pack([cg EXCEPT !.out = <<>>], status, errors)

\* the effect of a call with result res = [g, r] that consumed the handles
\* `used` of its caller
AsmCall(name, g2, r, used) ==
    /\ cg' = Unpack(g2)
    /\ status' = g2.status
    /\ errors' = g2.errors
    /\ holds' = (holds \ used) \cup (IF r \in 0..(GLOBAL_REG_COUNT - 1) THEN {r} ELSE {})
    /\ alast' = [op |-> name, r |-> r, allocs |-> g2.allocs]
    /\ UNCHANGED <<scanVars, symVars, compVars>>

AsmInitRegister ==
    /\ AsmRunning
    /\ LET res == asm_init_register(G0, 0) IN AsmCall("init_register", res.g, res.r, {})

AsmBinary ==
    /\ AsmRunning
    /\ \E r1 \in holds : \E r2 \in holds \ {r1}, m \in {"add", "sub", "mul", "div", "comp"} :
          LET res == CASE m = "add" -> asm_arith(G0, "add", r1, r2)
                       [] m = "sub" -> asm_arith(G0, "sub", r1, r2)
                       [] m = "mul" -> asm_arith(G0, "imul", r1, r2)
                       [] m = "div" -> asm_div(G0, r1, r2)
                       [] OTHER -> asm_comp(G0, r1, r2, "sete")
          IN AsmCall(m, res.g, res.r, {r2})

AsmJmpCond ==
    /\ AsmRunning
    /\ \E r1 \in holds, l \in 0..(cg.label_count - 1), m \in {"je", "jne"} :
          AsmCall(m, asm_jmp_with_cond(G0, r1, 1, m, l), asm_NoReg, {r1})

AsmLabel ==
    /\ AsmRunning
    /\ cg.label_count < MaxLabels
    /\ LET res == asm_generate_label(G0) IN
       AsmCall("generate_label", asm_jmp(asm_lbl(res.g, res.lbl), res.lbl), asm_NoReg, {})

AsmAddGlobalVar ==
    /\ AsmRunning
    /\ \E n \in VarNames :
          AsmCall("add_global_var", asm_add_global_var(G0, n, 32, 0), asm_NoReg, {})

AsmSetGlobalVar ==
    /\ AsmRunning
    /\ \E n \in VarNames, r \in holds :
          AsmCall("set_global_var", asm_set_global_var(G0, n, r), asm_NoReg, {r})

AsmGetGlobalVar ==
    /\ AsmRunning
    /\ \E n \in VarNames : LET res == asm_get_global_var(G0, n) IN AsmCall("get_global_var", res.g, res.r, {})

AsmAddressOf ==
    /\ AsmRunning
    /\ \E n \in VarNames : LET res == asm_address_of(G0, n) IN AsmCall("address_of", res.g, res.r, {})

AsmLoadMem ==
    /\ AsmRunning
    /\ \E a \in holds :
          LET res == asm_load_mem(G0, a, 32) IN AsmCall("load_mem", res.g, res.r, {a})

AsmStoreMem ==
    /\ AsmRunning
    /\ \E a \in holds : \E v \in holds \ {a} :
          AsmCall("store_mem", asm_store_mem(G0, a, v, 32), asm_NoReg, {a, v})

AsmSetRegister ==
    /\ AsmRunning
    /\ \E d \in holds : \E sr \in holds \ {d}, fr \in BOOLEAN :
          AsmCall("set_register", asm_set_register(G0, d, sr, 64, fr), asm_NoReg, IF fr THEN {sr} ELSE {})

\* the caller drops its handle after the call (generate_stmt_return, generate_decl_func)
AsmFuncReturn ==
    /\ AsmRunning
    /\ \E r \in holds : AsmCall("func_return", asm_generate_func_return(G0, r, 32), asm_NoReg, {r})

AsmFuncCall ==
    /\ AsmRunning
    /\ \E a \in holds \cup {asm_NoReg}, need \in BOOLEAN :
          LET res == asm_generate_func_call(G0, "print", a, need) IN
          AsmCall("func_call", res.g, res.r, {a})

\* allocate_register and free_register called one by one (SpecReg): holds is the
\* set of handles allocated and not yet given back
RegCall(name, g2, r, kept) ==
    /\ cg' = Unpack(g2)
    /\ status' = g2.status
    /\ errors' = g2.errors
    /\ holds' = kept
    /\ alast' = [op |-> name, r |-> r, pre |-> cg.free_reg, held |-> holds, allocs |-> g2.allocs]
    /\ UNCHANGED <<scanVars, symVars, compVars>>

RegAllocate ==
    /\ AsmRunning
    /\ \E res \in {allocate_register(G0)} :
          RegCall("allocate", res.g, res.r, IF res.r = asm_NoReg THEN holds ELSE holds \cup {res.r})

\* any handle may be given back: a held one, one given back already, rax or asm_NoReg
RegFree ==
    /\ AsmRunning
    /\ \E r \in asm_NoReg..asm_RAX :
          RegCall("free", free_register(G0, r), r, holds \ {r})

NextReg == RegAllocate \/ RegFree

NextAsm ==
    \/ AsmInitRegister \/ AsmBinary \/ AsmJmpCond \/ AsmLabel
    \/ AsmAddGlobalVar \/ AsmSetGlobalVar \/ AsmGetGlobalVar \/ AsmAddressOf
    \/ AsmLoadMem \/ AsmStoreMem \/ AsmSetRegister \/ AsmFuncReturn \/ AsmFuncCall


----------------------------------------------------------------------------
(* Datatypes (datatype.h) *)

DATATYPE_VOID == [name |-> "void", size |-> 0, pointer_level |-> 0, array_size |-> 0, base_type |-> "NULL"]
DATATYPE_CHAR == [name |-> "char", size |-> 8, pointer_level |-> 0, array_size |-> 0, base_type |-> "NULL"]
DATATYPE_INT == [name |-> "int", size |-> 32, pointer_level |-> 0, array_size |-> 0, base_type |-> "NULL"]
DATATYPE_LONG == [name |-> "long", size |-> 64, pointer_level |-> 0, array_size |-> 0, base_type |-> "NULL"]

\* the value an int takes when it is stored in the field __int8_t pointer_level
int8_t(x) == ((x + 128) % 256) - 128

\* array_size of the new type is left unset by the code; 0 - 1 stands for the unset value
datatype_get_pointer_of(type) ==
    [name |-> type.name, size |-> 64, pointer_level |-> int8_t(type.pointer_level + 1),
     array_size |-> 0 - 1,
     base_type |-> IF type.base_type = "NULL" THEN type.name ELSE type.base_type]

----------------------------------------------------------------------------
(* Symbol table (symtab.c) on a growable array (darray.c) *)

\* symbol names: the built-ins are <<"print">>, ...; the k-th identifier of a program is <<"id", k>>
UserName(k) == <<"id", k>>
BuiltinNames == << <<"print">>, <<"print_char">>, <<"print_str">>, <<"print_ln">> >>

NullEntry == [sym_name |-> <<"NULL">>, sym_type |-> "NULL", data_type |-> DATATYPE_VOID, args |-> <<>>]
\* memory that realloc added and nobody has written yet
GarbageEntry == [sym_name |-> <<"?">>, sym_type |-> "?", data_type |-> DATATYPE_VOID, args |-> <<>>]

\* the statics before main runs: zeroed
sym_static == [inited |-> FALSE, global_symbols |-> [capacity |-> 0, buffer |-> <<>>], global_symbols_index |-> 0]

darray_init(cap) == [capacity |-> cap, buffer |-> [i \in 0..(cap - 1) |-> NullEntry]]

\* darray_get but its grown array is zero filled and the old contents dropped
darray_get_fresh(arr, index) ==
    IF index >= arr.capacity
    THEN [capacity |-> arr.capacity * 2, buffer |-> [i \in 0..(arr.capacity * 2 - 1) |-> NullEntry]]
    ELSE arr

\* the array after darray_get(arr, index); the returned address is slot index of it
darray_get(arr, index) ==
    IF index >= arr.capacity
    THEN [capacity |-> arr.capacity * 2,
          buffer |-> [i \in 0..(arr.capacity * 2 - 1) |-> IF i < arr.capacity THEN arr.buffer[i] ELSE GarbageEntry]]
    ELSE arr

\* the for loop of symtab_find_global_symbol: the first index below
\* global_symbols_index whose entry carries the name, or -1
symtab_find_global_symbol(t, symbol_name) ==
    LET hits == {i \in 0..(t.global_symbols_index - 1) :
                    darray_get(t.global_symbols, i).buffer[i].sym_name = symbol_name}
    IN IF hits = {} THEN 0 - 1 ELSE CHOOSE i \in hits : \A j \in hits : i <= j

\* [t, entry]: the table after the call and the entry handed out
symtab_get_symbol(t, symbol_index) ==
    LET arr == darray_get(t.global_symbols, symbol_index) IN
    [t |-> [t EXCEPT !.global_symbols = arr], entry |-> arr.buffer[symbol_index]]

\* symtab_add_global_symbol of the first version of the file: index 0 is not seen as present
symtab_add_global_symbol_gt0(t, symbol_name, sym_type, data_type) ==
    LET sym_info == symtab_find_global_symbol(t, symbol_name)
        arr == darray_get(t.global_symbols, t.global_symbols_index)
        entry == [sym_name |-> symbol_name, sym_type |-> sym_type, data_type |-> data_type, args |-> <<>>]
    IN IF sym_info > 0 THEN [t |-> t, ret |-> 0 - 1, fatal |-> TRUE]
       ELSE [t |-> [t EXCEPT !.global_symbols = [arr EXCEPT !.buffer[t.global_symbols_index] = entry],
                             !.global_symbols_index = t.global_symbols_index + 1],
             ret |-> t.global_symbols_index, fatal |-> FALSE]

\* [t, ret, fatal]: fatal stands for debug_print(SEV_ERROR, ...); exit(1);
symtab_add_global_symbol(t, symbol_name, sym_type, data_type) ==
    LET sym_info == symtab_find_global_symbol(t, symbol_name)
        arr == darray_get(t.global_symbols, t.global_symbols_index)
        entry == [sym_name |-> symbol_name, sym_type |-> sym_type, data_type |-> data_type, args |-> <<>>]
    IN IF sym_info > 0 - 1 THEN [t |-> t, ret |-> 0 - 1, fatal |-> TRUE]
       ELSE IF sym_type \notin {"SYMBOL_VAR", "SYMBOL_FUNC"} THEN [t |-> t, ret |-> 0 - 1, fatal |-> TRUE]
       ELSE [t |-> [t EXCEPT !.global_symbols = [arr EXCEPT !.buffer[t.global_symbols_index] = entry],
                             !.global_symbols_index = t.global_symbols_index + 1],
             ret |-> t.global_symbols_index, fatal |-> FALSE]

\* LList_SymbolFuncArg_append(&((SymbolFunc_t *)symtab_get_symbol(index))->args, argument)
append_arg(t, index, arg_type) ==
    LET g == symtab_get_symbol(t, index).t IN
    [g EXCEPT !.global_symbols.buffer[index].args = Append(@, [arg_name |-> "x", arg_type |-> arg_type])]

\* one built-in of symtab_init_global_symtab: [t, hist, fatal]
add_builtin(st, k, arg_type) ==
    IF st.fatal THEN st
    ELSE LET a == symtab_add_global_symbol(st.t, BuiltinNames[k], "SYMBOL_FUNC", DATATYPE_VOID) IN
         IF a.fatal THEN [st EXCEPT !.fatal = TRUE]
         ELSE [t |-> append_arg(a.t, a.ret, arg_type),
               hist |-> Append(st.hist, [name |-> BuiltinNames[k], index |-> a.ret]),
               fatal |-> FALSE]

symtab_init_global_symtab(t) ==
    LET s0 == [t |-> [t EXCEPT !.global_symbols = darray_init(GLOBAL_SYMBOL_SIZE), !.inited = TRUE],
               hist |-> <<>>, fatal |-> FALSE]
        s1 == add_builtin(s0, 1, DATATYPE_LONG)
        s2 == add_builtin(s1, 2, DATATYPE_CHAR)
        s3 == add_builtin(s2, 3, datatype_get_pointer_of(DATATYPE_CHAR))
    IN add_builtin(s3, 4, datatype_get_pointer_of(DATATYPE_CHAR))

\* names that have an entry, from the history
AddedNames == {added[k].name : k \in 1..Len(added)}
NUser == Len(added) - Len(BuiltinNames)

\* names a program may mention: a built-in, its first, middle or last identifier,
\* the identifier whose entry follows the array's first growth, the next new one
ProbeNames ==
    {BuiltinNames[k] : k \in 1..Len(BuiltinNames)}
    \cup {UserName(k) : k \in {1, NUser \div 2, NUser, GLOBAL_SYMBOL_SIZE - Len(BuiltinNames) + 1, NUser + 1} \cap 1..(NUser + 1)}

SymRunning == status = "running" /\ sym.inited

\* lookups and re-adds are explored on a small table and again from the size
\* at which the array is full, through its growth
Probing ==
    \/ sym.global_symbols_index <= MaxProbePos
    \/ sym.global_symbols_index >= GLOBAL_SYMBOL_SIZE

SymtabInit ==
    /\ status = "running"
    /\ ~sym.inited
    /\ LET r == symtab_init_global_symtab(sym) IN
       /\ sym' = r.t
       /\ added' = r.hist
       /\ slast' = [op |-> "init", name |-> <<"NULL">>, result |-> 0 - 1, present |-> FALSE, pre |-> 0]
       /\ status' = IF r.fatal THEN "exit1" ELSE status
       /\ errors' = IF r.fatal THEN debug_print(errors) ELSE errors
    /\ UNCHANGED <<scanVars, asmVars, compVars>>

AddGlobalSymbol ==
    /\ SymRunning
    /\ sym.global_symbols_index < MaxSyms
    /\ \E n \in ProbeNames, ty \in {"SYMBOL_VAR", "SYMBOL_FUNC"} :
          /\ ty = "SYMBOL_FUNC" => sym.global_symbols_index < MaxKindPos
          /\ n \in AddedNames => Probing
          /\ LET dtype == IF ty = "SYMBOL_VAR" THEN DATATYPE_INT ELSE DATATYPE_VOID
                 r == symtab_add_global_symbol(sym, n, ty, dtype)
             IN /\ sym' = r.t
                /\ added' = IF r.fatal THEN added ELSE Append(added, [name |-> n, index |-> r.ret])
                /\ slast' = [op |-> "add", name |-> n, result |-> r.ret, present |-> n \in AddedNames, pre |-> sym.global_symbols_index]
                /\ status' = IF r.fatal THEN "exit1" ELSE status
                /\ errors' = IF r.fatal THEN debug_print(errors) ELSE errors
    /\ UNCHANGED <<scanVars, asmVars, compVars>>

FindGlobalSymbol ==
    /\ SymRunning
    /\ Probing
    /\ \E n \in ProbeNames :
          slast' = [op |-> "find", name |-> n, result |-> symtab_find_global_symbol(sym, n), present |-> n \in AddedNames, pre |-> sym.global_symbols_index]
    /\ UNCHANGED <<sym, added, errors, status, scanVars, asmVars, compVars>>

\* callers pass an index that add or find handed out
GetSymbol ==
    /\ SymRunning
    /\ Probing
    /\ \E k \in 1..Len(added) :
          /\ added[k].name \in ProbeNames
          /\ LET r == symtab_get_symbol(sym, added[k].index) IN
             /\ sym' = r.t
             /\ slast' = [op |-> "get", name |-> r.entry.sym_name, result |-> added[k].index, present |-> TRUE, pre |-> sym.global_symbols_index]
    /\ UNCHANGED <<added, errors, status, scanVars, asmVars, compVars>>

NextSym == SymtabInit \/ AddGlobalSymbol \/ FindGlobalSymbol \/ GetSymbol

----------------------------------------------------------------------------
(* Datatype helpers (datatype.c) *)

\* [type, fatal]; base is *type->base_type, an entry of __supported_primative_types
datatype_deref_pointer(type, derefrence_level) ==
    LET lvl == int8_t(type.pointer_level - derefrence_level)
        base == CHOOSE d \in {DATATYPE_VOID, DATATYPE_CHAR, DATATYPE_INT, DATATYPE_LONG} : d.name = type.base_type
    IN IF type.pointer_level = 0 \/ lvl < 0 THEN [type |-> type, fatal |-> TRUE]
       ELSE [type |-> [name |-> type.name,
                       size |-> IF lvl = 0 THEN base.size ELSE 64,
                       pointer_level |-> lvl,
                       array_size |-> 0 - 1,
                       base_type |-> IF lvl = 0 THEN "NULL" ELSE type.base_type],
             fatal |-> FALSE]

\* [type, fatal]
datatype_expr_type(left, right) ==
    IF left = right THEN [type |-> left, fatal |-> FALSE]
    ELSE IF (left = DATATYPE_VOID) # (right = DATATYPE_VOID) THEN [type |-> left, fatal |-> TRUE]
    ELSE [type |-> IF left.size > right.size THEN left ELSE right, fatal |-> FALSE]

\* TRUE when the call ends in exit(1); left == datatype_get_primative_type(DT_LONG) compares
\* addresses, and only the table entry itself (array_size 0) equals DATATYPE_LONG
check_pointer_levels(left, right) ==
    IF \/ (left.pointer_level > 0 /\ right = DATATYPE_LONG)
       \/ (right.pointer_level > 0 /\ left = DATATYPE_LONG)
    THEN FALSE
    ELSE IF left.pointer_level # right.pointer_level THEN TRUE
    ELSE left.pointer_level > 0 /\ right.pointer_level > 0 /\ left.base_type # right.base_type

\* TRUE when the call ends in exit(1)
datatype_check_assign_expr_type(left, right) ==
    IF check_pointer_levels(left, right) THEN TRUE
    ELSE IF \/ (left = DATATYPE_VOID /\ right # DATATYPE_VOID)
            \/ (right = DATATYPE_VOID /\ left # DATATYPE_VOID)
    THEN TRUE
    ELSE left.size < right.size

(* The datatype functions called one at a time (SpecType).  dt.op = "assign": *)
(* target and value are built with datatype_get_pointer_of and handed to     *)
(* datatype_check_assign_expr_type.  dt.op = "chain": value is the type of a  *)
(* declaration with k stars (datatype_get_type), dereferenced n times one     *)
(* level at a time (expr_dref_ptr); target stays the primitive it began as.   *)

DtPrimitives == {DATATYPE_VOID, DATATYPE_CHAR, DATATYPE_INT, DATATYPE_LONG}

dt_none ==
    [op |-> "none", target |-> DATATYPE_VOID, value |-> DATATYPE_VOID, k |-> 0, n |-> 0, called |-> FALSE, fatal |-> FALSE,
     scale |-> [side |-> "none", offset |-> 0]]

\* the if (left->expr_type->pointer_level > 0 || right->expr_type->pointer_level > 0) block of
\* expr_additive_expression: which operand gets an AST_OFFSET_SCALE parent, and the node's value
offset_scale(left, right) ==
    IF left.pointer_level > 0 \/ right.pointer_level > 0
    THEN LET ptrdref == IF left.pointer_level > 0 THEN left ELSE right
         IN [side |-> IF left.pointer_level > 0 THEN "right" ELSE "left",
             offset |-> IF ptrdref.pointer_level > 1 THEN 8
                        ELSE ((CHOOSE d \in DtPrimitives : d.name = ptrdref.base_type).size \div 8) % 256]
    ELSE [side |-> "none", offset |-> 0]

TypeRunning == status = "running" /\ dt.op # "none"

DatatypeGetPointerOf ==
    /\ TypeRunning /\ ~dt.called
    /\ \E side \in {"target", "value"} :
          /\ dt.op \in {"assign", "add"} => dt[side].pointer_level < MaxTypeLevel
          /\ dt.op = "chain" => side = "value" /\ dt.k < MaxPtr
          /\ dt' = [dt EXCEPT ![side] = datatype_get_pointer_of(@),
                              !.k = IF side = "value" THEN @ + 1 ELSE @]
    /\ UNCHANGED <<tk, cfg, pc, ast, parser, ghost, gen, scanVars, asmVars, symVars, procVars>>

DatatypeDerefPointer ==
    /\ TypeRunning /\ dt.op = "chain" /\ dt.k >= 1
    /\ \E r \in {datatype_deref_pointer(dt.value, 1)} :
          /\ dt' = [dt EXCEPT !.value = r.type, !.n = @ + 1, !.called = TRUE, !.fatal = r.fatal]
          /\ errors' = IF r.fatal THEN debug_print(errors) ELSE errors
          /\ status' = IF r.fatal THEN "exit1" ELSE status
    /\ UNCHANGED <<tk, cfg, pc, ast, parser, ghost, gen, scanVars, asmVars, symVars>>

DatatypeCheckAssign ==
    /\ TypeRunning /\ dt.op = "assign" /\ ~dt.called
    /\ \E f \in {datatype_check_assign_expr_type(dt.target, dt.value)} :
          /\ dt' = [dt EXCEPT !.called = TRUE, !.fatal = f]
          /\ errors' = IF f THEN debug_print(errors) ELSE errors
          /\ status' = IF f THEN "exit1" ELSE status
    /\ UNCHANGED <<tk, cfg, pc, ast, parser, ghost, gen, scanVars, asmVars, symVars>>

\* one round of expr_additive_expression's loop on operands of the types target (left) and value (right)
ExprAdditive ==
    /\ TypeRunning /\ dt.op = "add" /\ ~dt.called
    /\ \E r \in {datatype_expr_type(dt.target, dt.value)} :
          /\ dt' = [dt EXCEPT !.called = TRUE, !.fatal = r.fatal, !.scale = offset_scale(dt.target, dt.value)]
          /\ errors' = IF r.fatal THEN debug_print(errors) ELSE errors
          /\ status' = IF r.fatal THEN "exit1" ELSE status
    /\ UNCHANGED <<tk, cfg, pc, ast, parser, ghost, gen, scanVars, asmVars, symVars>>

NextType == DatatypeGetPointerOf \/ DatatypeDerefPointer \/ DatatypeCheckAssign \/ ExprAdditive


----------------------------------------------------------------------------
(* Syntax tree (ast.h, ast.c) *)

NULL == 0
\* the value of a pointer field that malloc left unset
Uninit == 0 - 1
NoType == [name |-> "NULL", size |-> 0, pointer_level |-> 0, array_size |-> 0, base_type |-> "NULL"]

ASTCheckLoopContext(t) == t \in {"AST_WHILE", "AST_DO_WHILE", "AST_FOR"}

\* the element of a singleton: The({ e : x \in {v} }) is e with the local x holding the value of v
The(S) == CHOOSE x \in S : TRUE

RECURSIVE chain_nodes(_, _)
\* the nodes of the sibling chain that starts at n
chain_nodes(a, n) == IF n = NULL THEN {} ELSE {n} \cup chain_nodes(a, a[n].next)

\* a node creation that adopts only the first node of each child chain
ast_create_node_first(a, type, left, right, value) ==
    Append([i \in 1..Len(a) |-> IF i \in ({left, right} \ {NULL}) THEN [a[i] EXCEPT !.parent = Len(a) + 1] ELSE a[i]],
           [type |-> type, next |-> NULL, left |-> left, right |-> right, parent |-> Uninit,
            expr_type |-> NoType, value |-> value])

\* the arena after ast_create_node; the new node is its last one
ast_create_node(a, type, left, right, value) ==
    Append([i \in 1..Len(a) |-> IF i \in chain_nodes(a, left) \cup chain_nodes(a, right)
                                THEN [a[i] EXCEPT !.parent = Len(a) + 1] ELSE a[i]],
           [type |-> type, next |-> NULL, left |-> left, right |-> right, parent |-> Uninit,
            expr_type |-> NoType, value |-> value])

RECURSIVE ast_flatten(_, _)
ast_flatten(a, node) == IF a[node].next = NULL THEN node ELSE ast_flatten(a, a[node].next)

----------------------------------------------------------------------------
(* Expression parser (expr.c) on the expressions of the source programs.    *)
(* q = [ast, id, ok]: the arena, the node just parsed, FALSE after a fatal  *)
(* error.  The source is well formed: every scanner_match succeeds, and     *)
(* the operand types of its statements pass datatype_check_assign_expr_type.*)

NameX == <<"x">>
NameP == <<"p">>
NamePP == <<"pp">>
NameY == <<"y">>
NameZ == <<"z">>
\* the formal argument of a function declared as int f(int a)
NameA == <<"a">>
\* the array declared as T arr[ArrSize]
ArrName(T) == <<"arr", T>>
ArrElems == {"char", "int", "long"}
FuncName(k) == <<"f", k>>

\* symtab_get_symbol(index)
SymEntry(t, index) == symtab_get_symbol(t, index).entry

\* ast_create_node followed by node->expr_type = etype
TypedNode(q, type, left, right, value, etype) ==
    IF ~q.ok THEN q
    ELSE The({ [ast |-> [a1 EXCEPT ![Len(a1)].expr_type = etype], id |-> Len(a1), ok |-> TRUE]
               : a1 \in {ast_create_node(q.ast, type, left, right, value)} })

expr_val_intlit(q, v) ==
    TypedNode(q, "AST_INT_LIT", NULL, NULL, v, IF v < 256 THEN DATATYPE_CHAR ELSE DATATYPE_INT)

expr_func_call(q, t, name, arg) ==
    LET i == symtab_find_global_symbol(t, name)
        e == symtab_get_symbol(t, i).entry
    IN IF ~q.ok \/ ~arg.ok THEN [arg EXCEPT !.ok = FALSE]
       ELSE IF i = 0 - 1 THEN [q EXCEPT !.ok = FALSE]
       ELSE IF e.sym_type # "SYMBOL_FUNC" THEN [q EXCEPT !.ok = FALSE]
       ELSE IF Len(e.args) # 1 THEN [arg EXCEPT !.ok = FALSE]
       ELSE TypedNode(arg, "AST_FUNC_CALL", arg.id, NULL, i, e.data_type)

\* a variable used as a value (the name of a function leads to expr_func_call)
expr_val_var(q, t, name) ==
    LET i == symtab_find_global_symbol(t, name) IN
    IF ~q.ok THEN q
    ELSE IF i < 0 THEN [q EXCEPT !.ok = FALSE]
    ELSE TypedNode(q, "AST_VAR", NULL, NULL, i, symtab_get_symbol(t, i).entry.data_type)

\* *name
expr_dref_ptr(q, t, name) ==
    The({ IF ~var.ok THEN var
          ELSE LET d == datatype_deref_pointer(var.ast[var.id].expr_type, 1) IN
               IF d.fatal THEN [var EXCEPT !.ok = FALSE]
               ELSE TypedNode(var, "AST_PTRDREF", var.id, NULL, 0, d.type)
          : var \in {expr_val_var(q, t, name)} })

\* the loop of expr_dref_ptr: one datatype_deref_pointer and one PTRDREF node per star
RECURSIVE deref_chain(_, _)
deref_chain(expr, dref_level) ==
    IF dref_level = 0 \/ ~expr.ok THEN expr
    ELSE LET d == datatype_deref_pointer(expr.ast[expr.id].expr_type, 1) IN
         IF d.fatal THEN [expr EXCEPT !.ok = FALSE]
         ELSE deref_chain(TypedNode(expr, "AST_PTRDREF", expr.id, NULL, 0, d.type), dref_level - 1)

\* name[v]
expr_val_var_index(q, t, name, v) ==
    The({ IF ~var.ok THEN var ELSE
          The({ The({ The({ The({ The({
              LET d == datatype_deref_pointer(add.ast[add.id].expr_type, 1) IN
              IF d.fatal THEN [add EXCEPT !.ok = FALSE]
              ELSE TypedNode(add, "AST_PTRDREF", add.id, NULL, 0, d.type)
              : add \in {LET et == datatype_expr_type(var.ast[var.id].expr_type, index.ast[index.id].expr_type) IN
                         IF et.fatal THEN [mult EXCEPT !.ok = FALSE]
                         ELSE TypedNode(mult, "AST_ADD", addr.id, mult.id, 0, et.type)} })
              : mult \in {TypedNode(scale, "AST_MULT", index.id, scale.id, 0, NoType)} })
              : scale \in {TypedNode(addr, "AST_INT_LIT", NULL, NULL, var.ast[var.id].expr_type.size \div 8, NoType)} })
              : addr \in {TypedNode(index, "AST_ADDRESSOF", var.id, NULL, 0, var.ast[var.id].expr_type)} })
              : index \in {expr_val_intlit(var, v)} })
          : var \in {expr_val_var(q, t, name)} })

\* name + v
expr_additive_expression(q, t, name, v) ==
    The({ IF ~left.ok THEN left ELSE
          The({ The({ LET et == datatype_expr_type(left.ast[left.id].expr_type, other.ast[other.id].expr_type) IN
                      IF et.fatal THEN [other EXCEPT !.ok = FALSE]
                      ELSE TypedNode(other, "AST_ADD", left.id, other.id, 0, et.type)
                      : other \in {LET lt == left.ast[left.id].expr_type IN
                                   IF lt.pointer_level > 0
                                   THEN TypedNode(right, "AST_OFFSET_SCALE", right.id, NULL,
                                                  IF lt.pointer_level > 1 THEN 8
                                                  ELSE (CHOOSE d \in DtPrimitives : d.name = lt.base_type).size \div 8,
                                                  right.ast[right.id].expr_type)
                                   ELSE right} })
                : right \in {expr_val_intlit(left, v)} })
          : left \in {expr_val_var(q, t, name)} })

\* lhs = 1 for the left-hand sides x, *p, p[1] and arr[1] (lhs names the element type of arr)
expr_assignment(q, t, lhs) ==
    The({ IF ~var.ok THEN var
          ELSE The({ TypedNode(val, "AST_ASSIGN", var.id, val.id, 0, var.ast[var.id].expr_type)
                     : val \in {expr_val_intlit(var, 1)} })
          : var \in {CASE lhs = "x" -> expr_val_var(q, t, NameX)
                       [] lhs = "*p" -> expr_dref_ptr(q, t, NameP)
                       [] lhs = "p[1]" -> expr_val_var_index(q, t, NameP, 1)
                       [] OTHER -> expr_val_var_index(q, t, ArrName(lhs), 1)} })

\* lhs = *...*name ; with dref_level stars
expr_assign_val(q, t, lhs, name, dref_level) ==
    The({ IF ~var.ok THEN var
          ELSE The({ IF ~val.ok THEN val
                     ELSE IF datatype_check_assign_expr_type(var.ast[var.id].expr_type, val.ast[val.id].expr_type)
                     THEN [val EXCEPT !.ok = FALSE]
                     ELSE TypedNode(val, "AST_ASSIGN", var.id, val.id, 0, var.ast[var.id].expr_type)
                     : val \in {deref_chain(expr_val_var(var, t, name), dref_level)} })
          : var \in {expr_val_var(q, t, lhs)} })

\* x = *p;  p = *pp;  x = **pp;  x = *pp;
ValDerefs == {<<NameX, NameP, 1>>, <<NameP, NamePP, 1>>, <<NameX, NamePP, 2>>, <<NameX, NamePP, 1>>}

----------------------------------------------------------------------------
(* Statement and declaration parser (stmt.c, decl.c), one step per          *)
(* statement, block opening and block end.                                  *)

DECL_NO_FUNC == 0 - 1
SimpleKinds == {"empty", "assign_var", "assign_deref", "assign_index", "call", "return", "expr"}
OpenKinds == {"while", "do_while", "for", "if"}

CfgNone == [kinds |-> {}, globals |-> {}, max_stmts |-> 0, max_depth |-> 0, max_funcs |-> 0]

parser_static == [stack |-> <<>>, in_loop |-> FALSE, root |-> NULL, head |-> NULL, decl_current_func |-> DECL_NO_FUNC]
gen_static == [next |-> NULL, stmts |-> <<>>, breaks |-> <<>>, loop_end |-> {}, epilogues |-> <<>>]

Parsing == pc = "parse" /\ status = "running"
InBlock == parser.stack # <<>>

\* an arena with no node parsed yet in the current step
Q0 == [ast |-> ast, id |-> NULL, ok |-> TRUE]

\* stmt_statements: the node joins the chain of the block being parsed
PutStmt(p, a, n) ==
    LET k == Len(p.stack)
        f == p.stack[k]
    IN IF f.root = NULL
       THEN [p |-> [p EXCEPT !.stack[k].root = n, !.stack[k].head = ast_flatten(a, n)], ast |-> a]
       ELSE [p |-> [p EXCEPT !.stack[k].head = n], ast |-> [a EXCEPT ![f.head].next = n]]

\* decl_declarations: the node joins the chain of top-level declarations
PutDecl(p, a, n, need_to_flatten) ==
    LET a1 == IF p.head # NULL THEN [a EXCEPT ![p.head].next = n] ELSE a IN
    [p |-> [p EXCEPT !.root = IF p.root = NULL THEN n ELSE p.root,
                     !.head = IF need_to_flatten THEN ast_flatten(a1, n) ELSE n],
     ast |-> a1]

\* the outcome of a parser step; fatal: debug_print(SEV_ERROR, ...); exit(1);
ParseStep(r, t2, gh2, fatal) ==
    /\ ast' = r.ast
    /\ parser' = r.p
    /\ sym' = t2
    /\ ghost' = gh2
    /\ status' = IF fatal THEN "exit1" ELSE status
    /\ errors' = IF fatal THEN debug_print(errors) ELSE errors
    /\ UNCHANGED <<tk, dt, cfg, pc, gen, scanVars, asmVars, added, slast>>

Frame(fn, fid, expr) == [fn |-> fn, fid |-> fid, root |-> NULL, head |-> NULL, expr |-> expr, first |-> NULL]

\* main up to the call of decl_declarations
MainStart ==
    /\ pc = "start"
    /\ status = "running"
    /\ cfg # CfgNone
    /\ \E argc_ok \in BOOLEAN, file_ok \in BOOLEAN :
          /\ argc_ok => sym' = symtab_init_global_symtab(sym).t
          /\ ~argc_ok => sym' = sym
          /\ status' = IF argc_ok THEN status ELSE "exit1"
          /\ errors' = IF ~argc_ok THEN debug_print(errors)
                       ELSE IF file_ok THEN errors
                       ELSE debug_print(debug_print(errors))
          /\ pc' = IF ~argc_ok THEN pc ELSE IF file_ok THEN "parse" ELSE "codegen"
    /\ UNCHANGED <<tk, dt, cfg, ast, parser, ghost, gen, scanVars, asmVars, added, slast>>

\* decl_function up to the function's block
ParseFuncOpen ==
    /\ Parsing
    /\ ~InBlock
    /\ ghost.nfuncs < cfg.max_funcs
    /\ \E return_type \in {DATATYPE_INT} \cup IF "void_func" \in cfg.kinds THEN {DATATYPE_VOID} ELSE {} :
       \E r \in {symtab_add_global_symbol(sym, FuncName(ghost.nfuncs + 1), "SYMBOL_FUNC", return_type)} :
          ParseStep([p |-> [parser EXCEPT !.decl_current_func = r.ret,
                                          !.stack = <<Frame("func", 0, r.ret)>>],
                     ast |-> ast],
                    IF ~r.fatal /\ NameA \in cfg.globals THEN append_arg(r.t, r.ret, DATATYPE_INT) ELSE r.t,
                    [ghost EXCEPT !.nfuncs = @ + 1, !.last.op = "func"], r.fatal)

\* decl_var: int x; int *p; or T arr[MaxArrSize]; at top level, int y = x; or int y = x, z; in a block
ParseDeclVar ==
    /\ Parsing
    /\ InBlock => ghost.nstmts < cfg.max_stmts
    /\ \E name \in IF InBlock THEN {NameY} \cap cfg.globals
                   ELSE ({NameX, NameP, NamePP} \cup {ArrName(T) : T \in ArrElems}) \cap cfg.globals :
       \E var_type \in {IF name = NameP THEN datatype_get_pointer_of(DATATYPE_INT)
                        ELSE IF name = NamePP THEN datatype_get_pointer_of(datatype_get_pointer_of(DATATYPE_INT))
                        ELSE IF name[1] = "arr" THEN CHOOSE d \in DtPrimitives : d.name = name[2]
                        ELSE DATATYPE_INT} :
       \E array_dt \in {[datatype_get_pointer_of(var_type) EXCEPT !.array_size = MaxArrSize]} :
       \E r \in {symtab_add_global_symbol(sym, name, "SYMBOL_VAR", var_type)} :
       \E decl \in {TypedNode(Q0, "AST_VAR_DECL", NULL, NULL, r.ret, IF name[1] = "arr" THEN array_dt ELSE var_type)} :
          IF r.fatal THEN ParseStep([p |-> parser, ast |-> ast], sym, ghost, TRUE)
          ELSE IF ~InBlock
          THEN ParseStep(PutDecl(parser, decl.ast, decl.id, TRUE),
                         IF name[1] = "arr" THEN [r.t EXCEPT !.global_symbols.buffer[r.ret].data_type = array_dt] ELSE r.t,
                         [ghost EXCEPT !.last.op = "decl"], FALSE)
          ELSE \E init \in {expr_val_var(decl, r.t, NameX)} :
               \E more \in IF NameZ \in cfg.globals THEN BOOLEAN ELSE {FALSE} :
               \E rz \in {symtab_add_global_symbol(r.t, NameZ, "SYMBOL_VAR", var_type)} :
               \E declz \in {TypedNode(init, "AST_VAR_DECL", NULL, NULL, rz.ret, var_type)} :
                  IF ~init.ok THEN ParseStep([p |-> parser, ast |-> init.ast], r.t, ghost, TRUE)
                  ELSE IF ~more
                  THEN ParseStep(PutStmt(parser, [init.ast EXCEPT ![decl.id].left = init.id], decl.id), r.t,
                                 [ghost EXCEPT !.nstmts = @ + 1, !.last.op = "decl"], FALSE)
                  ELSE IF rz.fatal THEN ParseStep([p |-> parser, ast |-> init.ast], r.t, ghost, TRUE)
                  ELSE ParseStep(PutStmt(parser, [declz.ast EXCEPT ![decl.id].left = init.id,
                                                                   ![decl.id].next = declz.id], decl.id),
                                 rz.t, [ghost EXCEPT !.nstmts = @ + 1, !.last.op = "decl"], FALSE)

\* stmt_return: return ; when bare, and return expr ; for the parsed operand q otherwise
stmt_return(q, t, current_func, bare) ==
    LET func == SymEntry(t, current_func)
    IN IF bare
       THEN IF func.data_type # DATATYPE_VOID THEN [q EXCEPT !.ok = FALSE]
            ELSE TypedNode(q, "AST_RETURN", NULL, NULL, current_func, DATATYPE_VOID)
       ELSE IF ~q.ok THEN q
       ELSE IF datatype_check_assign_expr_type(func.data_type, q.ast[q.id].expr_type) THEN [q EXCEPT !.ok = FALSE]
       ELSE TypedNode(q, "AST_RETURN", q.id, NULL, current_func, q.ast[q.id].expr_type)

\* stmt_statement for a statement without a block
ParseSimple ==
    /\ Parsing
    /\ InBlock
    /\ ghost.nstmts < cfg.max_stmts
    /\ \E kind \in (SimpleKinds \cup {"return_arg", "return_bare", "assign_arr", "assign_val"}) \cap cfg.kinds :
       \E q \in IF kind = "assign_arr"
               THEN {expr_assignment(Q0, sym, T) : T \in {e \in ArrElems : ArrName(e) \in cfg.globals}}
               ELSE IF kind = "assign_val"
               THEN {expr_assign_val(Q0, sym, c[1], c[2], c[3]) : c \in ValDerefs}
               ELSE
               {CASE kind = "empty" -> TypedNode(Q0, "AST_EMPTY", NULL, NULL, 0, NoType)
                   [] kind = "assign_var" -> expr_assignment(Q0, sym, "x")
                   [] kind = "assign_deref" -> expr_assignment(Q0, sym, "*p")
                   [] kind = "assign_index" -> expr_assignment(Q0, sym, "p[1]")
                   [] kind = "call" -> expr_func_call(Q0, sym, BuiltinNames[1], expr_val_var(Q0, sym, NameX))
                   [] kind = "return" -> stmt_return(expr_val_var(Q0, sym, NameX), sym, parser.decl_current_func, FALSE)
                   [] kind = "return_arg" -> stmt_return(expr_additive_expression(Q0, sym, NameA, 1), sym,
                                                         parser.decl_current_func, FALSE)
                   [] kind = "return_bare" -> stmt_return(Q0, sym, parser.decl_current_func, TRUE)
                   [] OTHER -> expr_val_var(Q0, sym, NameX)} :
          IF q.ok
          THEN ParseStep(PutStmt(parser, q.ast, q.id), sym,
                         [ghost EXCEPT !.nstmts = @ + 1, !.last.op = kind, !.last.accepted = TRUE], FALSE)
          ELSE ParseStep([p |-> parser, ast |-> q.ast], sym,
                         [ghost EXCEPT !.last.op = kind, !.last.accepted = FALSE], TRUE)

\* stmt_break
ParseBreak ==
    /\ Parsing
    /\ InBlock
    /\ ghost.nstmts < cfg.max_stmts
    /\ "break" \in cfg.kinds
    /\ \E loops \in {{k \in 1..Len(parser.stack) : parser.stack[k].fn \in OpenKinds \ {"if"}}} :
       \E near \in {IF loops = {} THEN 0 ELSE parser.stack[CHOOSE k \in loops : \A j \in loops : j <= k].fid} :
       \E q \in {TypedNode(Q0, "AST_BREAK", NULL, NULL, 0, NoType)} :
       \E gh \in {[ghost EXCEPT !.nstmts = @ + 1,
                                !.last = [op |-> "break", enclosed |-> loops # {}, accepted |-> parser.in_loop]]} :
          IF ~parser.in_loop
          THEN ParseStep([p |-> parser, ast |-> ast], sym, gh, TRUE)
          ELSE ParseStep(PutStmt(parser, q.ast, q.id), sym, [gh EXCEPT !.encl = @ \cup {<<q.id, near>>}], FALSE)

\* stmt_while, stmt_do_while, stmt_for, stmt_if up to the block; every condition is the literal 1,
\* the for statement is for (; 1;) or for (x = 1; 1;)
ParseOpen ==
    /\ Parsing
    /\ InBlock
    /\ ghost.nstmts < cfg.max_stmts
    /\ Len(parser.stack) < cfg.max_depth
    /\ \E kind \in OpenKinds \cap cfg.kinds :
       \E init \in {TypedNode(Q0, "AST_EMPTY", NULL, NULL, 0, NoType)}
                    \cup IF kind = "for" /\ "for_init" \in cfg.kinds THEN {expr_assignment(Q0, sym, "x")} ELSE {} :
       \E cond \in {expr_val_intlit(IF kind = "for" THEN init ELSE Q0, 1)} :
       \E update \in {TypedNode(cond, "AST_EMPTY", NULL, NULL, 0, NoType)} :
          IF kind = "for" /\ ~init.ok THEN ParseStep([p |-> parser, ast |-> init.ast], sym, ghost, TRUE)
          ELSE
          ParseStep([p |-> [parser EXCEPT !.in_loop = IF kind = "if" THEN @ ELSE TRUE,
                                          !.stack = Append(@, Frame(IF kind = "if" THEN "if_true" ELSE kind,
                                                                    ghost.fid + 1,
                                                                    CASE kind = "for" -> init.id
                                                                      [] kind = "do_while" -> NULL
                                                                      [] OTHER -> cond.id))],
                     ast |-> CASE kind = "for" -> [update.ast EXCEPT ![init.id].next = cond.id,
                                                                       ![cond.id].next = update.id]
                               [] kind = "do_while" -> ast
                               [] OTHER -> cond.ast],
                    sym, [ghost EXCEPT !.nstmts = @ + 1, !.fid = @ + 1, !.last.op = kind], FALSE)

\* stmt_if: the true block is followed by else
ParseElse ==
    /\ Parsing
    /\ InBlock
    /\ \E k \in {Len(parser.stack)} :
       /\ parser.stack[k].fn = "if_true"
       /\ parser.stack[k].root # NULL
       /\ ParseStep([p |-> [parser EXCEPT !.stack[k] = [fn |-> "if_false", fid |-> @.fid, root |-> NULL,
                                                        head |-> NULL, expr |-> @.expr, first |-> @.root]],
                     ast |-> ast],
                    sym, [ghost EXCEPT !.last.op = "else"], FALSE)

\* the end of a block: the rest of stmt_while, stmt_do_while, stmt_for, stmt_if or decl_function
ParseClose ==
    /\ Parsing
    /\ InBlock
    /\ \E k \in {Len(parser.stack)} :
       \E f \in {parser.stack[k]} :
       \E q \in {CASE f.fn = "while" -> TypedNode(Q0, "AST_WHILE", f.expr, f.root, 0, NoType)
                   [] f.fn = "do_while" -> The({ TypedNode(cond, "AST_DO_WHILE", cond.id, f.root, 0, NoType)
                                                 : cond \in {expr_val_intlit(Q0, 1)} })
                   [] f.fn = "for" -> TypedNode(Q0, "AST_FOR", f.expr, f.root, 0, NoType)
                   [] f.fn = "func" -> TypedNode(Q0, "AST_FUNC_DECL", f.root, NULL, f.expr, SymEntry(sym, f.expr).data_type)
                   [] f.fn = "if_true" -> The({ TypedNode(glue, "AST_IF", f.expr, glue.id, 0, NoType)
                                                : glue \in {TypedNode(Q0, "AST_GLUE", f.root, NULL, 0, NoType)} })
                   [] f.fn = "if_false" -> The({ TypedNode(glue, "AST_IF", f.expr, glue.id, 0, NoType)
                                                 : glue \in {TypedNode(Q0, "AST_GLUE", f.first, f.root, 0, NoType)} })} :
       \E popped \in {[parser EXCEPT !.stack = SubSeq(@, 1, k - 1),
                                     !.in_loop = IF f.fn \in OpenKinds \ {"if"} THEN FALSE ELSE @,
                                     !.decl_current_func = IF f.fn = "func" THEN DECL_NO_FUNC ELSE @]} :
          IF f.root = NULL
          THEN \* '}' right after '{': stmt_statements calls stmt_statement, whose default case is
               \* decl_var, and datatype_get_type ends the process on the '}'
               /\ "empty_block" \in cfg.kinds
               /\ ParseStep([p |-> parser, ast |-> ast], sym,
                             [ghost EXCEPT !.last.op = "empty_block", !.last.accepted = FALSE], TRUE)
          ELSE IF f.fn = "func"
             THEN ParseStep(PutDecl(popped, q.ast, q.id, FALSE), sym,
                            [ghost EXCEPT !.frame_node = @ \cup {<<f.fid, q.id>>}, !.last.op = "close"], FALSE)
             ELSE ParseStep(PutStmt(popped, q.ast, q.id), sym,
                            [ghost EXCEPT !.frame_node = @ \cup {<<f.fid, q.id>>}, !.last.op = "close"], FALSE)

\* decl_declarations reads TOK_EOF; main goes on to the code generator
ParseEOF ==
    /\ Parsing
    /\ ~InBlock
    /\ pc' = "codegen"
    /\ gen' = [gen EXCEPT !.next = parser.root]
    /\ errors' = IF parser.root = NULL THEN debug_print(errors) ELSE errors
    /\ UNCHANGED <<tk, dt, cfg, ast, parser, ghost, status, scanVars, asmVars, symVars>>

----------------------------------------------------------------------------
(* Token-level parse of one expression and of one declaration (SpecDecl).    *)
(* toks is the sequence of tokens the scanner will hand out, pos the index   *)
(* of the next one; past the end every read yields TOK_EOF.  A result is     *)
(* [st, pos]: st = "ok", "exit1" (debug_print(SEV_ERROR) and exit(1)) or      *)
(* "ub" (a read of Token_t.value.str_value on a token that stored no string). *)
(* The inputs hold no TOK_LPAREN, TOK_AMPER, TOK_STAR, TOK_SLASH or TOK_MINUS, *)
(* every TOK_ID of an expression names a declared variable of type int, and  *)
(* every TOK_INTLIT is non-negative.                                         *)

scanner_peek_at(toks, pos, n) == IF pos + n <= Len(toks) THEN toks[pos + n] ELSE "TOK_EOF"

Res(st, pos) == [st |-> st, pos |-> pos]

tok_match(toks, pos, type) ==
    IF scanner_peek_at(toks, pos, 0) = type THEN Res("ok", pos + 1) ELSE Res("exit1", pos)

\* expr_expression's do-while: the first token at or after position i that ends the search
RECURSIVE find_terminator(_, _, _)
find_terminator(toks, pos, i) ==
    IF scanner_peek_at(toks, pos, i) \in {"TOK_ASSIGN", "TOK_SEMICOLON", "TOK_EMPTY", "TOK_RPAREN", "TOK_EOF"}
    THEN scanner_peek_at(toks, pos, i)
    ELSE find_terminator(toks, pos, i + 1)

\* the same search with ',' among the tokens that end it
RECURSIVE find_terminator_comma(_, _, _)
find_terminator_comma(toks, pos, i) ==
    IF scanner_peek_at(toks, pos, i) \in {"TOK_ASSIGN", "TOK_SEMICOLON", "TOK_COMMA", "TOK_EMPTY", "TOK_RPAREN", "TOK_EOF"}
    THEN scanner_peek_at(toks, pos, i)
    ELSE find_terminator_comma(toks, pos, i + 1)

expr_path(toks, pos) ==
    IF find_terminator(toks, pos, 0) = "TOK_ASSIGN" THEN "assignment" ELSE "comparison"

tok_expr_val_intlit(toks, pos) == Res("ok", pos + 1)

tok_expr_val_var(toks, pos) ==
    IF scanner_peek_at(toks, pos, 0) = "TOK_ID" THEN tok_match(toks, pos, "TOK_ID") ELSE Res("ub", pos)

RECURSIVE tok_expr_expression(_, _)
RECURSIVE tok_expr_comparison_expression(_, _)

tok_expr_val_var_index(toks, pos) ==
    The({ IF v.st # "ok" THEN v
          ELSE The({ IF lb.st # "ok" THEN lb
                     ELSE The({ IF ix.st # "ok" THEN ix ELSE tok_match(toks, ix.pos, "TOK_RBRACKET")
                                : ix \in {tok_expr_comparison_expression(toks, lb.pos)} })
                     : lb \in {tok_match(toks, v.pos, "TOK_LBRACKET")} })
          : v \in {tok_expr_val_var(toks, pos)} })

tok_expr_lval(toks, pos) ==
    IF scanner_peek_at(toks, pos, 1) = "TOK_LBRACKET"
    THEN tok_expr_val_var_index(toks, pos)
    ELSE tok_expr_val_var(toks, pos)

tok_expr_val(toks, pos) ==
    IF scanner_peek_at(toks, pos, 0) = "TOK_INTLIT"
    THEN tok_expr_val_intlit(toks, pos)
    ELSE tok_expr_lval(toks, pos)

tok_expr_multiplicative_expression(toks, pos) == tok_expr_val(toks, pos)

\* the while loop of expr_additive_expression, entered with the left operand parsed up to r.pos
RECURSIVE tok_additive_loop(_, _)
tok_additive_loop(toks, r) ==
    IF r.st # "ok" THEN r
    ELSE IF scanner_peek_at(toks, r.pos, 0) = "TOK_PLUS"
    THEN The({ tok_additive_loop(toks, right)
               : right \in {tok_expr_multiplicative_expression(toks, r.pos + 1)} })
    ELSE r

tok_expr_additive_expression(toks, pos) ==
    The({ tok_additive_loop(toks, left) : left \in {tok_expr_multiplicative_expression(toks, pos)} })

tok_expr_comparison_expression(toks, pos) ==
    The({ IF left.st # "ok" THEN left
          ELSE IF scanner_peek_at(toks, left.pos, 0) \in {"TOK_EQ", "TOK_NE", "TOK_GT", "TOK_GE", "TOK_LT", "TOK_LE"}
          THEN tok_expr_additive_expression(toks, left.pos + 1)
          ELSE left
          : left \in {tok_expr_additive_expression(toks, pos)} })

tok_expr_assignment(toks, pos) ==
    The({ IF var.st # "ok" THEN var
          ELSE The({ IF m.st # "ok" THEN m ELSE tok_expr_expression(toks, m.pos)
                     : m \in {tok_match(toks, var.pos, "TOK_ASSIGN")} })
          : var \in {tok_expr_lval(toks, pos)} })

tok_expr_expression(toks, pos) ==
    IF expr_path(toks, pos) = "assignment"
    THEN tok_expr_assignment(toks, pos)
    ELSE tok_expr_comparison_expression(toks, pos)

\* decl_var after datatype_get_type: n VAR_DECL nodes are linked so far
RECURSIVE decl_var(_, _, _)
\* the end of one round of decl_var's loop: tok is the token the local variable tok holds
decl_var_next(toks, pos, n, tok) ==
    IF tok = "TOK_COMMA"
    THEN decl_var(toks, pos + 1, n)
    ELSE [n |-> n] @@ tok_match(toks, pos, "TOK_SEMICOLON")

decl_var(toks, pos, n) ==
    IF scanner_peek_at(toks, pos, 0) # "TOK_ID" THEN [n |-> n] @@ Res("exit1", pos + 1)
    ELSE IF scanner_peek_at(toks, pos, 1) = "TOK_ASSIGN"
    THEN The({ IF e.st # "ok" THEN [n |-> n + 1] @@ e
               ELSE decl_var_next(toks, e.pos, n + 1, scanner_peek_at(toks, e.pos, 0))
               : e \in {tok_expr_expression(toks, pos + 2)} })
    ELSE IF scanner_peek_at(toks, pos, 1) = "TOK_LBRACKET"
    THEN IF scanner_peek_at(toks, pos, 2) # "TOK_INTLIT" THEN [n |-> n + 1] @@ Res("exit1", pos + 3)
         ELSE The({ IF m.st # "ok" THEN [n |-> n + 1] @@ m
                    ELSE decl_var_next(toks, m.pos, n + 1, "TOK_INTLIT")
                    : m \in {tok_match(toks, pos + 3, "TOK_RBRACKET")} })
    ELSE decl_var_next(toks, pos + 1, n + 1, scanner_peek_at(toks, pos + 1, 0))

\* what the build can do with a result: a read through a pointer that was never stored
\* ends in a segmentation fault or finds no symbol of that name
Outcomes(st) == IF st = "ub" THEN {"crash", "exit1"} ELSE {st}

tk_none == [op |-> "none", toks |-> <<>>, ids |-> 0, called |-> FALSE, path |-> "none", st |-> "ok", pos |-> 1, n |-> 0]

TokRunning == status = "running" /\ tk.op # "none" /\ ~tk.called

TokDone(out) ==
    /\ errors' = IF out = "exit1" THEN debug_print(errors) ELSE errors
    /\ status' = IF out = "ok" THEN status ELSE out
    /\ UNCHANGED <<dt, cfg, pc, ast, parser, ghost, gen, scanVars, asmVars, symVars>>

ExprExpression ==
    /\ TokRunning /\ tk.op = "expr"
    /\ \E r \in {tok_expr_expression(tk.toks, 1)} : \E out \in Outcomes(r.st) :
          /\ tk' = [tk EXCEPT !.called = TRUE, !.path = expr_path(tk.toks, 1), !.st = out, !.pos = r.pos]
          /\ TokDone(out)

DeclVar ==
    /\ TokRunning /\ tk.op = "decl"
    /\ \E r \in {decl_var(tk.toks, 1, 0)} : \E out \in Outcomes(r.st) :
          /\ tk' = [tk EXCEPT !.called = TRUE, !.st = out, !.pos = r.pos, !.n = r.n]
          /\ TokDone(out)

NextDecl == ExprExpression \/ DeclVar

ExprToks == {"TOK_ID", "TOK_INTLIT", "TOK_ASSIGN", "TOK_COMMA", "TOK_SEMICOLON", "TOK_RPAREN", "TOK_PLUS"}
TokSeqs(n) == UNION {[1..k -> ExprToks] : k \in 1..n}

\* the initializer forms of decl_var: none, = INTLIT, = ID, [INTLIT]
DeclInits ==
    {<<>>, <<"TOK_ASSIGN", "TOK_INTLIT">>, <<"TOK_ASSIGN", "TOK_ID">>,
     <<"TOK_LBRACKET", "TOK_INTLIT", "TOK_RBRACKET">>}
\* the tokens of id init (, id init)* ; for the sequence inits of initializer forms
RECURSIVE DeclToks(_)
DeclToks(inits) ==
    IF Len(inits) = 1 THEN <<"TOK_ID">> \o inits[1] \o <<"TOK_SEMICOLON">>
    ELSE <<"TOK_ID">> \o inits[1] \o <<"TOK_COMMA">> \o DeclToks(Tail(inits))

----------------------------------------------------------------------------
(* Token-level parse of a whole token stream, one step per loop round        *)
(* (SpecParse).  tk.ctl is the place the parser has reached, tk.i the index   *)
(* of a lookahead search (or whether an argument has been parsed), tk.stack   *)
(* the blocks and if statements that are open.  TOK_FID is a TOK_ID whose     *)
(* name is a function, TOK_ID one whose name is a variable; a function is     *)
(* called as the first operand of an expression statement only.  A stream   *)
(* is shorter than the lookahead buffer (MAX_PUTBACK_BUFFER_SIZE tokens).     *)

\* datatype_get_type on a stream without TOK_STAR
tok_datatype_get_type(toks, pos) ==
    IF scanner_peek_at(toks, pos, 0) \in {"TOK_CHAR", "TOK_INT", "TOK_VOID", "TOK_LONG"}
    THEN Res("ok", pos + 1) ELSE Res("exit1", pos + 1)

tok_decl_id(toks, pos) ==
    IF scanner_peek_at(toks, pos, 0) \in {"TOK_ID", "TOK_FID"} THEN Res("ok", pos + 1) ELSE Res("exit1", pos + 1)

\* r when it failed, the result of next at r.pos otherwise
Then(r, next(_)) == IF r.st # "ok" THEN r ELSE next(r.pos)

\* decl_function up to args_decl
decl_function_head(toks, pos) ==
    LET id(q) == tok_decl_id(toks, q)
        lparen(q) == tok_match(toks, q, "TOK_LPAREN")
    IN Then(Then(tok_datatype_get_type(toks, pos), id), lparen)

\* stmt_var_decl
tok_stmt_var_decl(toks, pos) ==
    LET vars_(q) == [x \in {"st", "pos"} |-> decl_var(toks, q, 0)[x]]
    IN Then(tok_datatype_get_type(toks, pos), vars_)

\* the TOK_SEMICOLON case of stmt_statement, which takes the token and makes no other
stmt_empty_untaken(toks, pos) == Res("ok", pos)

\* the TOK_SEMICOLON case of stmt_statement
stmt_empty(toks, pos) == tok_match(toks, pos, "TOK_SEMICOLON")

\* stmt_block entered for the construct owner: the outcome [st, t]
stmt_block(t, owner) ==
    IF scanner_peek_at(t.toks, t.pos, 0) = "TOK_LBRACE"
    THEN [st |-> "ok", t |-> [t EXCEPT !.pos = @ + 1, !.stack = Append(Append(@, owner), "braces"), !.ctl = "stmt"]]
    ELSE [st |-> "ok", t |-> [t EXCEPT !.stack = Append(Append(@, owner), "single"), !.ctl = "stmt"]]

\* stmt_if up to and with the entry of its true block
stmt_if(t, owner) ==
    LET lparen(q) == tok_match(t.toks, q, "TOK_LPAREN")
        expr(q) == tok_expr_expression(t.toks, q)
        rparen(q) == tok_match(t.toks, q, "TOK_RPAREN")
    IN The({ IF r.st = "ok"
             THEN stmt_block([t EXCEPT !.pos = r.pos, !.stack = IF owner = "none" THEN @ ELSE Append(@, owner)], "if_then")
             ELSE [st |-> r.st, t |-> [t EXCEPT !.pos = r.pos]]
             : r \in {Then(Then(Then(tok_match(t.toks, t.pos, "TOK_IF"), lparen), expr), rparen)} })

\* the rest of an expression statement whose first operand, a call, ends before pos
tok_after_call(toks, pos) ==
    LET semi(q) == tok_match(toks, q, "TOK_SEMICOLON")
    IN The({ Then(IF left.st # "ok" THEN left
                  ELSE IF scanner_peek_at(toks, left.pos, 0) \in {"TOK_EQ", "TOK_NE", "TOK_GT", "TOK_GE", "TOK_LT", "TOK_LE"}
                  THEN tok_expr_additive_expression(toks, left.pos + 1)
                  ELSE left, semi)
             : left \in {tok_additive_loop(toks, Res("ok", pos))} })

ParseRunning(ctl) == status = "running" /\ tk.op = "parse" /\ tk.ctl = ctl
ParseEnded == tk.op = "parse" /\ (status # "running" \/ tk.ctl = "end")

ParseStepTo(out, t2) ==
    /\ tk' = t2
    /\ TokDone(out)

\* the inner while of decl_declarations: one scanner_cache_tok
DeclSearch ==
    /\ ParseRunning("decls")
    /\ \E type \in {scanner_peek_at(tk.toks, tk.pos, tk.i)} :
          ParseStepTo("ok", IF type \in {"TOK_SEMICOLON", "TOK_EMPTY", "TOK_LPAREN", "TOK_EOF", "TOK_COMMA", "TOK_ASSIGN"}
                            THEN [tk EXCEPT !.ctl = "dispatch", !.type = type, !.i = 0]
                            ELSE [tk EXCEPT !.i = @ + 1])

\* the rest of a round of decl_declarations' outer while
DeclDispatch ==
    /\ ParseRunning("dispatch")
    /\ IF tk.type = "TOK_EOF" THEN ParseStepTo("ok", [tk EXCEPT !.ctl = "end"])
       ELSE IF tk.type = "TOK_LPAREN"
       THEN \E r \in {decl_function_head(tk.toks, tk.pos)} :
               ParseStepTo(r.st, [tk EXCEPT !.pos = r.pos, !.ctl = "args_decl"])
       ELSE \E r \in {tok_stmt_var_decl(tk.toks, tk.pos)} : \E out \in Outcomes(r.st) :
               ParseStepTo(out, [tk EXCEPT !.pos = r.pos, !.ctl = "decls"])

\* one round of args_decl's while; after its break decl_function goes on to the body
ArgsDecl ==
    /\ ParseRunning("args_decl")
    /\ IF scanner_peek_at(tk.toks, tk.pos, 0) = "TOK_RPAREN"
       THEN \E b \in {stmt_block([tk EXCEPT !.pos = @ + 1], "func")} : ParseStepTo(b.st, b.t)
       ELSE \E r \in {tok_datatype_get_type(tk.toks, tk.pos)} :
            IF r.st # "ok" THEN ParseStepTo(r.st, [tk EXCEPT !.pos = r.pos])
            ELSE \E t2 \in {[tk EXCEPT !.pos = IF scanner_peek_at(tk.toks, r.pos, 1) = "TOK_COMMA"
                                                THEN r.pos + 2 ELSE r.pos + 1]} :
                 IF scanner_peek_at(tk.toks, r.pos, 0) \in {"TOK_ID", "TOK_FID"} THEN ParseStepTo("ok", t2)
                 ELSE \* the error line is printed and strdup reads the str_value of a token that stored none
                      \E out \in {"running", "crash"} :
                         /\ tk' = t2
                         /\ errors' = debug_print(errors)
                         /\ status' = out
                         /\ UNCHANGED <<dt, cfg, pc, ast, parser, ghost, gen, scanVars, asmVars, symVars>>

\* stmt_statement
Statement ==
    /\ ParseRunning("stmt")
    /\ \E tok \in {scanner_peek_at(tk.toks, tk.pos, 0)} :
          IF tok = "TOK_SEMICOLON"
          THEN \E r \in {stmt_empty(tk.toks, tk.pos)} : ParseStepTo(r.st, [tk EXCEPT !.pos = r.pos, !.ctl = "stmt_done"])
          ELSE IF tok \in {"TOK_ID", "TOK_FID"}
          THEN ParseStepTo("ok", [tk EXCEPT !.ctl = "lookahead", !.i = 0])
          ELSE IF tok = "TOK_IF"
          THEN \E b \in {stmt_if(tk, "none")} : ParseStepTo(b.st, b.t)
          ELSE \E r \in {tok_stmt_var_decl(tk.toks, tk.pos)} : \E out \in Outcomes(r.st) :
                  ParseStepTo(out, [tk EXCEPT !.pos = r.pos, !.ctl = "stmt_done"])

\* one round of expr_expression's do-while for the expression of a statement
ExprSearch ==
    /\ ParseRunning("lookahead")
    /\ \E tok \in {scanner_peek_at(tk.toks, tk.pos, tk.i)} :
          ParseStepTo("ok", IF tok \in {"TOK_ASSIGN", "TOK_SEMICOLON", "TOK_EMPTY", "TOK_RPAREN", "TOK_EOF"}
                            THEN [tk EXCEPT !.ctl = "expr", !.type = tok, !.i = 0]
                            ELSE [tk EXCEPT !.i = @ + 1])

\* stmt_expression after the search: the expression and its ';', or expr_func_call up to args
StmtExpression ==
    /\ ParseRunning("expr")
    /\ LET semi(q) == tok_match(tk.toks, q, "TOK_SEMICOLON")
           lparen(q) == tok_match(tk.toks, q, "TOK_LPAREN")
       IN IF tk.type # "TOK_ASSIGN" /\ scanner_peek_at(tk.toks, tk.pos, 0) = "TOK_FID"
          THEN \E r \in {lparen(tk.pos + 1)} : ParseStepTo(r.st, [tk EXCEPT !.pos = r.pos, !.ctl = "args", !.i = 0])
          ELSE \E r \in {Then(IF tk.type = "TOK_ASSIGN" THEN tok_expr_assignment(tk.toks, tk.pos)
                              ELSE tok_expr_comparison_expression(tk.toks, tk.pos), semi)} :
               \E out \in Outcomes(r.st) :
                  ParseStepTo(out, [tk EXCEPT !.pos = r.pos, !.ctl = "stmt_done"])

\* args: the test at its entry and one round of its do-while
Args ==
    /\ ParseRunning("args")
    /\ IF tk.i = 0 /\ scanner_peek_at(tk.toks, tk.pos, 0) = "TOK_RPAREN"
       THEN ParseStepTo("ok", [tk EXCEPT !.ctl = "call_end"])
       ELSE \E r \in {tok_expr_expression(tk.toks, tk.pos)} : \E out \in Outcomes(r.st) :
               ParseStepTo(out, IF scanner_peek_at(tk.toks, r.pos, 0) = "TOK_COMMA"
                                THEN [tk EXCEPT !.pos = r.pos + 1, !.i = 1]
                                ELSE [tk EXCEPT !.pos = r.pos, !.ctl = "call_end", !.i = 0])

\* expr_func_call after args, the rest of the expression and the ';' of stmt_expression;
\* the number of arguments is or is not the one of the function's declaration
CallEnd ==
    /\ ParseRunning("call_end")
    /\ \E m \in {tok_match(tk.toks, tk.pos, "TOK_RPAREN")} :
          IF m.st # "ok" THEN ParseStepTo(m.st, [tk EXCEPT !.pos = m.pos])
          ELSE \E count_ok \in BOOLEAN :
               IF ~count_ok THEN ParseStepTo("exit1", [tk EXCEPT !.pos = m.pos])
               ELSE \E r \in {tok_after_call(tk.toks, m.pos)} : \E out \in Outcomes(r.st) :
                       ParseStepTo(out, [tk EXCEPT !.pos = r.pos, !.ctl = "stmt_done"])

\* the test of a round of stmt_statements' while, and the '}' of stmt_block after its break
StmtsLoop ==
    /\ ParseRunning("stmts")
    /\ IF scanner_peek_at(tk.toks, tk.pos, 0) \in {"TOK_EOF", "TOK_RBRACE"}
       THEN \E m \in {tok_match(tk.toks, tk.pos, "TOK_RBRACE")} :
               ParseStepTo(m.st, [tk EXCEPT !.pos = m.pos, !.ctl = "block_done",
                                            !.stack = SubSeq(@, 1, Len(@) - 1)])
       ELSE ParseStepTo("ok", [tk EXCEPT !.ctl = "stmt"])

\* stmt_statement has returned to stmt_statements, to stmt_block or to the else branch of stmt_if
StmtDone ==
    /\ ParseRunning("stmt_done")
    /\ \E top \in {tk.stack[Len(tk.stack)]} :
          ParseStepTo("ok", IF top = "braces" THEN [tk EXCEPT !.ctl = "stmts"]
                            ELSE IF top = "single"
                            THEN [tk EXCEPT !.ctl = "block_done", !.stack = SubSeq(@, 1, Len(@) - 1)]
                            ELSE [tk EXCEPT !.stack = SubSeq(@, 1, Len(@) - 1)])

\* stmt_block has returned to decl_function or to stmt_if
BlockDone ==
    /\ ParseRunning("block_done")
    /\ \E top \in {tk.stack[Len(tk.stack)]} : \E t \in {[tk EXCEPT !.stack = SubSeq(@, 1, Len(@) - 1)]} :
          IF top = "func" THEN ParseStepTo("ok", [t EXCEPT !.ctl = "decls", !.i = 0])
          ELSE IF top = "if_else" THEN ParseStepTo("ok", [t EXCEPT !.ctl = "stmt_done"])
          ELSE IF scanner_peek_at(t.toks, t.pos, 0) # "TOK_ELSE" THEN ParseStepTo("ok", [t EXCEPT !.ctl = "stmt_done"])
          ELSE IF scanner_peek_at(t.toks, t.pos, 1) = "TOK_IF"
          THEN \E b \in {stmt_if([t EXCEPT !.pos = @ + 1], "else_if")} : ParseStepTo(b.st, b.t)
          ELSE \E b \in {stmt_block([t EXCEPT !.pos = @ + 1], "if_else")} : ParseStepTo(b.st, b.t)

NextParse ==
    \/ DeclSearch \/ DeclDispatch \/ ArgsDecl \/ Statement \/ ExprSearch \/ StmtExpression
    \/ Args \/ CallEnd \/ StmtsLoop \/ StmtDone \/ BlockDone

\* the statements of the programs parsed
StmtForms ==
    {<<"TOK_SEMICOLON">>,
     <<"TOK_ID", "TOK_ASSIGN", "TOK_ID", "TOK_PLUS", "TOK_INTLIT", "TOK_SEMICOLON">>,
     <<"TOK_FID", "TOK_LPAREN", "TOK_RPAREN", "TOK_SEMICOLON">>,
     <<"TOK_FID", "TOK_LPAREN", "TOK_ID", "TOK_COMMA", "TOK_INTLIT", "TOK_RPAREN", "TOK_PLUS", "TOK_INTLIT", "TOK_SEMICOLON">>,
     <<"TOK_IF", "TOK_LPAREN", "TOK_INTLIT", "TOK_RPAREN", "TOK_LBRACE", "TOK_SEMICOLON", "TOK_RBRACE">>,
     <<"TOK_IF", "TOK_LPAREN", "TOK_ID", "TOK_RPAREN", "TOK_SEMICOLON", "TOK_ELSE", "TOK_LBRACE", "TOK_INT", "TOK_ID", "TOK_SEMICOLON", "TOK_RBRACE">>,
     <<"TOK_IF", "TOK_LPAREN", "TOK_ID", "TOK_RPAREN", "TOK_LBRACE", "TOK_RBRACE", "TOK_ELSE",
       "TOK_IF", "TOK_LPAREN", "TOK_ID", "TOK_RPAREN", "TOK_SEMICOLON">>}

\* the bodies of at most n statements
RECURSIVE Bodies(_)
Bodies(n) == IF n = 0 THEN {<<>>} ELSE {<<>>} \cup {s \o b : s \in StmtForms, b \in Bodies(n - 1)}

\* int id, ..., int id with k formal arguments
RECURSIVE ParamToks(_)
ParamToks(k) ==
    IF k = 0 THEN <<>>
    ELSE IF k = 1 THEN <<"TOK_INT", "TOK_ID">>
    ELSE <<"TOK_INT", "TOK_ID", "TOK_COMMA">> \o ParamToks(k - 1)

\* a declaration of variables or none, a function, a declaration of a variable or none
ParsePrograms ==
    {pre \o <<"TOK_INT", "TOK_FID", "TOK_LPAREN">> \o ParamToks(k) \o <<"TOK_RPAREN", "TOK_LBRACE">> \o body
         \o <<"TOK_RBRACE">> \o post :
        pre \in {<<>>, <<"TOK_INT", "TOK_ID", "TOK_ASSIGN", "TOK_INTLIT", "TOK_COMMA", "TOK_ID", "TOK_SEMICOLON">>},
        k \in 0..MaxParseParams, body \in Bodies(MaxParseBody),
        post \in {<<>>, <<"TOK_INT", "TOK_ID", "TOK_SEMICOLON">>}}

\* every program and every stream that ends inside one
ParseStreams == UNION {{SubSeq(p, 1, n) : n \in 0..Len(p)} : p \in ParsePrograms}

----------------------------------------------------------------------------
(* Code generator (codegen.c).  g is the record of Pack extended with the   *)
(* arena, the outcome `ub` that a read of an unset parent pointer takes,    *)
(* and the logs: stmts (register file before and after each                 *)
(* generate_statement), breaks (target of each break's jmp), loop_end       *)
(* (end label minted for each loop node), epilogues (register file at each  *)
(* asm_generate_function_epilogue).  t is the symbol table.                 *)

CompTypes == {"AST_COMP_EQ", "AST_COMP_NE", "AST_COMP_GT", "AST_COMP_GE", "AST_COMP_LT", "AST_COMP_LE"}

GenPack(c, st, er, a, lg, ub) ==
    Pack(c, st, er) @@ [ast |-> a, ub |-> ub, stmts |-> lg.stmts, breaks |-> lg.breaks,
                        loop_end |-> lg.loop_end, epilogues |-> lg.epilogues]

\* emits the .data line of an initialised global; takes no register
asm_set_global_var_initial_val(g, var_name, value, kind) == Emit(g, <<"data", var_name, value, kind>>)

asm_wrapup(g) ==
    Emit(IF Len(g.bss_symbols) > 0 THEN Emit(Emit(g, <<"extern_print">>), <<"section_bss", g.bss_symbols>>)
         ELSE Emit(g, <<"extern_print">>),
         <<"gnu_stack_note">>)

RECURSIVE loop_walk(_, _)
\* the while loop of get_loop_context; Uninit when the walk reads an unset parent pointer
loop_walk(a, node) ==
    IF node = NULL THEN NULL
    ELSE IF node = Uninit THEN Uninit
    ELSE IF ASTCheckLoopContext(a[node].type) THEN node
    ELSE loop_walk(a, a[node].parent)

get_loop_context(a, node) == IF node = NULL THEN NULL ELSE loop_walk(a, a[node].parent)

RECURSIVE generate_expr(_, _, _)
RECURSIVE generate_expr_ptrdref(_, _, _)
RECURSIVE generate_expr_arithmetic(_, _, _)
RECURSIVE generate_statement(_, _, _)
RECURSIVE generate_statements(_, _, _)

generate_expr_fcall(g, t, root) ==
    The({ asm_generate_func_call(expr.g, SymEntry(t, g.ast[root].value).sym_name, expr.r, TRUE)
          : expr \in {IF g.ast[root].left # NULL THEN generate_expr(g, t, g.ast[root].left)
                      ELSE [g |-> g, r |-> asm_NoReg]} })

generate_expr_addressof(g, t, root) ==
    asm_address_of(g, SymEntry(t, g.ast[g.ast[root].left].value).sym_name)

generate_expr_comparison(g, t, root) ==
    IF g.ast[root].type \notin CompTypes THEN generate_expr_arithmetic(g, t, root)
    ELSE The({ The({ asm_comp(right.g, left.r, right.r, g.ast[root].type)
                     : right \in {generate_expr(left.g, t, g.ast[root].right)} })
               : left \in {generate_expr(g, t, g.ast[root].left)} })

generate_expr(g, t, root) ==
    IF g.status # "running" THEN [g |-> g, r |-> asm_NoReg]
    ELSE CASE g.ast[root].type = "AST_FUNC_CALL" -> generate_expr_fcall(g, t, root)
           [] g.ast[root].type = "AST_ADDRESSOF" -> generate_expr_addressof(g, t, root)
           [] OTHER -> generate_expr_comparison(g, t, root)

\* left and right hold asm_NoReg where the code leaves the local unset; no case reads it then.
\* String literals and AST_ARRAY_INDEX nodes are in no program of the model.
generate_expr_arithmetic(g, t, root) ==
    The({ The({ The({
        CASE n.type = "AST_ADD" -> asm_arith(right.g, "add", left.r, right.r)
          [] n.type = "AST_SUBTRACT" -> asm_arith(right.g, "sub", left.r, right.r)
          [] n.type = "AST_MULT" -> asm_arith(right.g, "imul", left.r, right.r)
          [] n.type = "AST_DIV" -> asm_div(right.g, left.r, right.r)
          [] n.type = "AST_INT_LIT" -> asm_init_register(right.g, n.value)
          [] n.type = "AST_VAR" -> asm_get_global_var(right.g, SymEntry(t, n.value).sym_name)
          [] n.type = "AST_OFFSET_SCALE" ->
                 The({ asm_arith(offset.g, "imul", left.r, offset.r)
                       : offset \in {asm_init_register(right.g, n.value)} })
          [] n.type = "AST_PTRDREF" ->
                 The({ IF n.expr_type.pointer_level > 0 THEN addr
                       ELSE asm_load_mem(addr.g, addr.r, n.expr_type.size)
                       : addr \in {generate_expr_ptrdref(right.g, t, root)} })
          [] n.type \notin {"AST_ADD", "AST_SUBTRACT", "AST_MULT", "AST_DIV", "AST_INT_LIT", "AST_VAR",
                            "AST_OFFSET_SCALE", "AST_PTRDREF", "AST_STR_LIT", "AST_ARRAY_INDEX"} ->
                 [g |-> Fatal(right.g, 1), r |-> asm_NoReg]
        : right \in {IF n.right # NULL /\ n.type # "AST_ARRAY_INDEX"
                     THEN generate_expr(left.g, t, n.right)
                     ELSE [g |-> left.g, r |-> asm_NoReg]} })
        : left \in {IF n.left # NULL /\ n.type \notin {"AST_FUNC_CALL", "AST_PTRDREF", "AST_ARRAY_INDEX"}
                    THEN generate_expr(g, t, n.left)
                    ELSE [g |-> g, r |-> asm_NoReg]} })
        : n \in {g.ast[root]} })

\* generate_expr_ptrdref returning the inner register as it is for every result type
generate_expr_ptrdref_as_is(g, t, root) ==
    generate_expr(g, t, g.ast[root].left)

generate_expr_ptrdref(g, t, root) ==
    The({ IF g.ast[root].expr_type.pointer_level = 0 THEN expr
          ELSE asm_load_mem(expr.g, expr.r, g.ast[root].expr_type.size)
          : expr \in {generate_expr(g, t, g.ast[root].left)} })

generate_decl_var(g, t, root) ==
    The({ The({ The({
        IF n.left = NULL THEN g1
        ELSE IF g.ast[n.left].type = "AST_INT_LIT"
        THEN asm_set_global_var_initial_val(g1, symbol.sym_name, g.ast[n.left].value, "ASM_SYMBOL_INT")
        ELSE IF g.ast[n.left].type = "AST_STR_LIT"
        THEN asm_set_global_var_initial_val(g1, symbol.sym_name, g.ast[n.left].value, "ASM_SYMBOL_STR")
        ELSE The({ asm_set_global_var(value.g, symbol.sym_name, value.r)
                   : value \in {generate_expr(g1, t, n.left)} })
        : g1 \in {asm_add_global_var(g, symbol.sym_name, n.expr_type.size, symbol.data_type.array_size)} })
        : symbol \in {SymEntry(t, n.value)} })
        : n \in {g.ast[root]} })

\* the two asm_generate_label() calls that open generate_stmt_if and the loops: [g, first, second]
TwoLabels(g) ==
    The({ The({ [g |-> l2.g, first |-> l1.lbl, second |-> l2.lbl]
                : l2 \in {asm_generate_label(l1.g)} })
          : l1 \in {asm_generate_label(g)} })

\* root->value.num = end_label
SetEndLabel(g, root, end_label) ==
    IF g.status # "running" THEN g
    ELSE [g EXCEPT !.ast[root].value = end_label, !.loop_end = @ \cup {<<root, end_label>>}]

\* lb.first is false_label, lb.second is end_label
generate_stmt_if(g, t, root) ==
    The({ The({ The({ The({
        asm_lbl(IF glue.right # NULL THEN asm_jmp(generate_statements(g3, t, glue.right), lb.second) ELSE g3,
                lb.second)
        : g3 \in {asm_lbl(asm_jmp(generate_statements(asm_jmp_with_cond(comp.g, comp.r, 1, "jne", lb.first),
                                                      t, glue.left),
                                  lb.second),
                          lb.first)} })
        : comp \in {generate_expr(lb.g, t, g.ast[root].left)} })
        : lb \in {TwoLabels(g)} })
        : glue \in {g.ast[g.ast[root].right]} })

\* lb.first is start_label, lb.second is end_label
generate_stmt_while(g, t, root) ==
    The({ The({ asm_lbl(asm_jmp(generate_statements(asm_jmp_with_cond(comp.g, comp.r, 1, "jne", lb.second),
                                                    t, g.ast[root].right),
                                lb.first),
                        lb.second)
                : comp \in {generate_expr(asm_lbl(SetEndLabel(lb.g, root, lb.second), lb.first),
                                          t, g.ast[root].left)} })
          : lb \in {TwoLabels(g)} })

generate_stmt_do_while(g, t, root) ==
    The({ The({ asm_lbl(asm_jmp_with_cond(comp.g, comp.r, 1, "je", lb.first), lb.second)
                : comp \in {generate_expr(generate_statements(asm_lbl(SetEndLabel(lb.g, root, lb.second), lb.first),
                                                              t, g.ast[root].right),
                                          t, g.ast[root].left)} })
          : lb \in {TwoLabels(g)} })

\* init, cond and update are root->left, root->left->next and root->left->next->next
\* a for statement whose update step repeats the init statement
generate_stmt_for_reinit(g, t, root) ==
    The({ The({ asm_lbl(asm_jmp(generate_statement(generate_statements(asm_jmp_with_cond(comp.g, comp.r, 1, "jne", lb.second),
                                                                       t, g.ast[root].right),
                                                   t, g.ast[root].left),
                                lb.first),
                        lb.second)
                : comp \in {generate_expr(asm_lbl(generate_statement(SetEndLabel(lb.g, root, lb.second),
                                                                     t, g.ast[root].left),
                                                  lb.first),
                                          t, g.ast[g.ast[root].left].next)} })
          : lb \in {TwoLabels(g)} })

generate_stmt_for(g, t, root) ==
    The({ The({ asm_lbl(asm_jmp(generate_statement(generate_statements(asm_jmp_with_cond(comp.g, comp.r, 1, "jne", lb.second),
                                                                       t, g.ast[root].right),
                                                   t, g.ast[g.ast[g.ast[root].left].next].next),
                                lb.first),
                        lb.second)
                : comp \in {generate_expr(asm_lbl(generate_statement(SetEndLabel(lb.g, root, lb.second),
                                                                     t, g.ast[root].left),
                                                  lb.first),
                                          t, g.ast[g.ast[root].left].next)} })
          : lb \in {TwoLabels(g)} })

\* a walk that reads an unset parent pointer ends as g.ub says: the garbage is
\* dereferenced and faults, happens to be NULL, or is taken for a loop node
generate_stmt_break(g, root) ==
    The({ IF loop_node = NULL \/ (loop_node = Uninit /\ g.ub = "exit1") THEN Fatal(g, 1)
          ELSE IF loop_node = Uninit /\ g.ub = "crash" THEN [g EXCEPT !.status = "crash"]
          ELSE IF loop_node = Uninit
          THEN [asm_jmp(g, Uninit) EXCEPT !.breaks = Append(@, [node |-> root, target |-> Uninit, ub |-> TRUE])]
          ELSE [asm_jmp(g, g.ast[loop_node].value) EXCEPT
                   !.breaks = Append(@, [node |-> root, target |-> g.ast[loop_node].value, ub |-> FALSE])]
          : loop_node \in {get_loop_context(g.ast, root)} })

generate_stmt_assign(g, t, root) ==
    The({ CASE g.ast[g.ast[root].left].type = "AST_VAR" ->
                  asm_set_global_var(i.g, SymEntry(t, g.ast[g.ast[root].left].value).sym_name, i.r)
            [] g.ast[g.ast[root].left].type = "AST_PTRDREF" ->
                  The({ asm_store_mem(expr1.g, expr1.r, i.r, g.ast[g.ast[root].left].expr_type.size)
                        : expr1 \in {generate_expr_ptrdref(i.g, t, g.ast[root].left)} })
            [] g.ast[g.ast[root].left].type \notin {"AST_VAR", "AST_PTRDREF", "AST_ARRAY_INDEX"} -> Fatal(i.g, 1)
          : i \in {generate_expr(g, t, g.ast[root].right)} })

\* a bare return has no root->left: generate_expr reads through NULL
generate_stmt_return(g, t, root) ==
    IF g.ast[root].left = NULL THEN [g EXCEPT !.status = "crash"]
    ELSE The({ The({ IF g1.status # "running" THEN g1 ELSE [g1 EXCEPT !.return_called_flag = TRUE]
                     : g1 \in {asm_generate_func_return(i.g, i.r, SymEntry(t, g.ast[root].value).data_type.size)} })
               : i \in {generate_expr(g, t, g.ast[root].left)} })

generate_stmt_fcall(g, t, root) ==
    The({ asm_generate_func_call(expr.g, SymEntry(t, g.ast[root].value).sym_name, expr.r, FALSE).g
          : expr \in {IF g.ast[root].left # NULL THEN generate_expr(g, t, g.ast[root].left)
                      ELSE [g |-> g, r |-> asm_NoReg]} })

generate_statement(g, t, root) ==
    IF g.status # "running" THEN g
    ELSE The({ [g2 EXCEPT !.stmts = Append(@, [node |-> root, type |-> g.ast[root].type, pre |-> g.free_reg,
                                               post |-> g2.free_reg, done |-> g2.status = "running",
                                               first |-> Len(g.out) + 1, line |-> Len(g2.out)])]
               : g2 \in {CASE g.ast[root].type = "AST_VAR_DECL" -> generate_decl_var(g, t, root)
                           [] g.ast[root].type = "AST_ASSIGN" -> generate_stmt_assign(g, t, root)
                           [] g.ast[root].type = "AST_IF" -> generate_stmt_if(g, t, root)
                           [] g.ast[root].type = "AST_WHILE" -> generate_stmt_while(g, t, root)
                           [] g.ast[root].type = "AST_DO_WHILE" -> generate_stmt_do_while(g, t, root)
                           [] g.ast[root].type = "AST_FOR" -> generate_stmt_for(g, t, root)
                           [] g.ast[root].type = "AST_BREAK" -> generate_stmt_break(g, root)
                           [] g.ast[root].type = "AST_EMPTY" -> g
                           [] g.ast[root].type = "AST_RETURN" -> generate_stmt_return(g, t, root)
                           [] g.ast[root].type = "AST_FUNC_CALL" -> generate_stmt_fcall(g, t, root)
                           [] OTHER -> Fatal(g, 0)} })

generate_statements(g, t, root) ==
    IF root = NULL THEN g
    ELSE generate_statements(generate_statement(g, t, root), t, g.ast[root].next)

\* generate_decl_func without return_called_flag = false at its start
generate_decl_func_keep_flag(g, t, root) ==
    The({ The({
        IF g3.status # "running" THEN g3
        ELSE [asm_generate_function_epilogue(g3) EXCEPT
                 !.epilogues = Append(@, [node |-> root, free_reg |-> g3.free_reg,
                                          returned |-> g2.return_called_flag])]
        : g3 \in {IF ~g2.return_called_flag
                  THEN The({ asm_generate_func_return(i.g, i.r, 8) : i \in {asm_init_register(g2, 0)} })
                  ELSE g2} })
        : g2 \in {generate_statements(
                      asm_generate_function_prologue(g, SymEntry(t, g.ast[root].value).sym_name),
                      t, g.ast[root].left)} })

generate_decl_func(g, t, root) ==
    The({ The({
        IF g3.status # "running" THEN g3
        ELSE [asm_generate_function_epilogue(g3) EXCEPT
                 !.epilogues = Append(@, [node |-> root, free_reg |-> g3.free_reg,
                                          returned |-> g2.return_called_flag])]
        : g3 \in {IF ~g2.return_called_flag
                  THEN The({ asm_generate_func_return(i.g, i.r, 8) : i \in {asm_init_register(g2, 0)} })
                  ELSE g2} })
        : g2 \in {generate_statements(
                      asm_generate_function_prologue([g EXCEPT !.return_called_flag = FALSE],
                                                     SymEntry(t, g.ast[root].value).sym_name),
                      t, g.ast[root].left)} })

generate_decleration(g, t, root) ==
    CASE g.ast[root].type = "AST_FUNC_DECL" -> generate_decl_func(g, t, root)
      [] g.ast[root].type = "AST_VAR_DECL" -> generate_decl_var(g, t, root)
      [] OTHER -> Fatal(g, 1)

\* one round of the loop of generate_declerations
GenerateDecleration ==
    /\ pc = "codegen"
    /\ status = "running"
    /\ gen.next # NULL
    /\ \E ub \in {"crash", "exit1", "running"} :
       \E g2 \in {generate_decleration(GenPack(cg, status, errors, ast, gen, ub), sym, gen.next)} :
          /\ cg' = Unpack(g2)
          /\ status' = g2.status
          /\ errors' = g2.errors
          /\ ast' = g2.ast
          /\ gen' = [next |-> ast[gen.next].next, stmts |-> g2.stmts, breaks |-> g2.breaks,
                     loop_end |-> g2.loop_end, epilogues |-> g2.epilogues]
    /\ UNCHANGED <<tk, dt, cfg, pc, parser, ghost, scanVars, symVars, holds, alast>>

\* the end of codegen_start and of main: asm_wrapup, return 0
MainReturn ==
    /\ pc = "codegen"
    /\ status = "running"
    /\ gen.next = NULL
    /\ cg' = Unpack(asm_wrapup(Pack(cg, status, errors)))
    /\ status' = "exit0"
    /\ pc' = "done"
    /\ UNCHANGED <<tk, dt, cfg, ast, parser, ghost, gen, errors, scanVars, symVars, holds, alast>>

InitCommon ==
    /\ scanner = scanner_init
    /\ last = [op |-> "init", tok |-> EmptyTok, ret |-> FALSE, slot |-> 0 - 2]
    /\ nscanned = 0
    /\ cg = cg_init
    /\ holds = {}
    /\ alast = [op |-> "init", r |-> asm_NoReg, allocs |-> <<>>]
    /\ sym = sym_static
    /\ added = <<>>
    /\ slast = [op |-> "none", name |-> <<"NULL">>, result |-> 0 - 1, present |-> FALSE, pre |-> 0]
    /\ pc = "start"
    /\ ast = <<>>
    /\ parser = parser_static
    /\ ghost = [nstmts |-> 0, nfuncs |-> 0, fid |-> 0, encl |-> {}, frame_node |-> {},
                last |-> [op |-> "none", enclosed |-> FALSE, accepted |-> FALSE]]
    /\ gen = gen_static
    /\ errors = 0
    /\ status = "running"

\* a long input without unknown characters
InitScan ==
    /\ dt = dt_none
    /\ tk = tk_none
    /\ cfg = CfgNone
    /\ srclen = MaxSrc
    /\ unknown = {}
    /\ InitCommon

NextScan == Scan \/ Match \/ Peek \/ CacheTok

SpecScan == InitScan /\ [][NextScan]_vars

\* short inputs, each with at most one unknown character
InitLex ==
    /\ dt = dt_none
    /\ tk = tk_none
    /\ cfg = CfgNone
    /\ srclen \in 1..MaxLexSrc
    /\ \E u \in SUBSET (1..MaxLexSrc) : Cardinality(u) <= 1 /\ u \subseteq 1..srclen /\ unknown = u
    /\ InitCommon

SpecLex == InitLex /\ [][NextScan]_vars

\* the assembly writer on its own; the lexer stays in its initial state
InitAsm ==
    /\ dt = dt_none
    /\ tk = tk_none
    /\ cfg = CfgNone
    /\ srclen = 0
    /\ unknown = {}
    /\ InitCommon

SpecAsm == InitAsm /\ [][NextAsm]_vars

\* the register allocator on its own
SpecReg == InitAsm /\ [][NextReg]_vars

\* the symbol table on its own
SpecSym == InitAsm /\ [][NextSym]_vars

NextCompile ==
    \/ MainStart \/ ParseFuncOpen \/ ParseDeclVar \/ ParseSimple \/ ParseBreak
    \/ ParseOpen \/ ParseElse \/ ParseClose \/ ParseEOF
    \/ GenerateDecleration \/ MainReturn

\* programs of loops, ifs, empty statements and breaks
InitBreak ==
    /\ dt = dt_none
    /\ tk = tk_none
    /\ cfg = [kinds |-> {"empty", "break"} \cup OpenKinds, globals |-> {NameX},
              max_stmts |-> MaxBreakStmts, max_depth |-> MaxBreakDepth, max_funcs |-> MaxBreakFuncs]
    /\ srclen = 0
    /\ unknown = {}
    /\ InitCommon

SpecBreak == InitBreak /\ [][NextCompile]_vars

\* programs of every statement kind over the globals x, p and the local y
InitStmt ==
    /\ dt = dt_none
    /\ tk = tk_none
    /\ cfg = [kinds |-> SimpleKinds \cup OpenKinds \cup {"break"}, globals |-> {NameX, NameP, NameY},
              max_stmts |-> MaxStmts, max_depth |-> MaxDepth, max_funcs |-> MaxFuncs]
    /\ srclen = 0
    /\ unknown = {}
    /\ InitCommon

SpecStmt == InitStmt /\ [][NextCompile]_vars

\* programs with a formal argument, declarations inside blocks and for statements
InitProg ==
    /\ dt = dt_none
    /\ tk = tk_none
    /\ cfg = [kinds |-> {"empty", "empty_block", "return_arg", "for", "for_init", "if", "break"},
              globals |-> {NameX, NameY, NameZ, NameA},
              max_stmts |-> MaxProgStmts, max_depth |-> MaxProgDepth, max_funcs |-> MaxProgFuncs]
    /\ srclen = 0
    /\ unknown = {}
    /\ InitCommon

SpecProg == InitProg /\ [][NextCompile]_vars

\* programs of int and void functions with return x; and return ;
InitRet ==
    /\ dt = dt_none
    /\ tk = tk_none
    /\ cfg = [kinds |-> {"empty", "return", "return_bare", "void_func", "if", "break"}, globals |-> {NameX},
              max_stmts |-> MaxRetStmts, max_depth |-> MaxRetDepth, max_funcs |-> MaxRetFuncs]
    /\ srclen = 0
    /\ unknown = {}
    /\ InitCommon

SpecRet == InitRet /\ [][NextCompile]_vars

\* programs with arrays of char, int and long
InitArr ==
    /\ dt = dt_none
    /\ tk = tk_none
    /\ cfg = [kinds |-> {"empty", "assign_arr", "if", "break"},
              globals |-> {ArrName(T) : T \in ArrElems},
              max_stmts |-> MaxArrStmts, max_depth |-> MaxArrDepth, max_funcs |-> MaxArrFuncs]
    /\ srclen = 0
    /\ unknown = {}
    /\ InitCommon

SpecArr == InitArr /\ [][NextCompile]_vars

\* programs over int x; int *p; int **pp; whose statements read through p and pp
InitPtr ==
    /\ dt = dt_none
    /\ tk = tk_none
    /\ cfg = [kinds |-> {"empty", "assign_val", "if", "break"},
              globals |-> {NameX, NameP, NamePP},
              max_stmts |-> MaxPtrStmts, max_depth |-> MaxPtrDepth, max_funcs |-> MaxPtrFuncs]
    /\ srclen = 0
    /\ unknown = {}
    /\ InitCommon

SpecPtr == InitPtr /\ [][NextCompile]_vars

\* the two types of a check, or the primitive under a chain of stars
InitType ==
    /\ InitCommon
    /\ cfg = CfgNone
    /\ srclen = 0
    /\ unknown = {}
    /\ tk = tk_none
    /\ \/ \E l \in DtPrimitives : \E r \in DtPrimitives :
             dt = [dt_none EXCEPT !.op = "assign", !.target = l, !.value = r]
       \/ \E l \in DtPrimitives : \E r \in DtPrimitives :
             dt = [dt_none EXCEPT !.op = "add", !.target = l, !.value = r]
       \/ \E b \in DtPrimitives \ {DATATYPE_VOID} :
             dt = [dt_none EXCEPT !.op = "chain", !.target = b, !.value = b]

SpecType == InitType /\ [][NextType]_vars

\* the upcoming tokens at an expression entry, or the tokens of one declaration after its type
InitDecl ==
    /\ InitCommon
    /\ cfg = CfgNone
    /\ srclen = 0
    /\ unknown = {}
    /\ dt = dt_none
    /\ \/ \E ts \in TokSeqs(MaxToks) : tk = [tk_none EXCEPT !.op = "expr", !.toks = ts]
       \/ \E k \in 1..MaxDeclIds : \E inits \in [1..k -> DeclInits] :
             tk = [tk_none EXCEPT !.op = "decl", !.toks = DeclToks(inits), !.ids = k]

SpecDecl == InitDecl /\ [][NextDecl]_vars

\* the token streams handed to decl_declarations
InitParse ==
    /\ InitCommon
    /\ cfg = CfgNone
    /\ srclen = 0
    /\ unknown = {}
    /\ dt = dt_none
    /\ \E ts \in ParseStreams :
          tk = [op |-> "parse", toks |-> ts, ctl |-> "decls", type |-> "TOK_EMPTY", i |-> 0, stack |-> <<>>] @@ tk_none

SpecParse == InitParse /\ [][NextParse]_vars /\ WF_vars(NextParse)

----------------------------------------------------------------------------
(* Lexer claims *)

\* the source token that the next scan has to hand out
NextSourceTok == IF nscanned < srclen THEN Tok(nscanned + 1) ELSE EofTok

\* C3: on an input without unknown characters, the k-th token handed out by
\* scan/match is the k-th token of the source, peek hands out the token the
\* next scan will hand out, and no lookahead push ends the process; for any
\* number of pushes through the lookahead buffer.
C3_TokensInSourceOrder ==
    unknown = {} =>
        /\ (last.op \in {"scan", "match"} /\ last.ret) => last.tok = Tok(nscanned)
        /\ last.op = "peek" => last.tok = NextSourceTok
        /\ status # "crash"

\* an unknown character has been read from the file
UnknownRead == \E u \in unknown : scanner.nread >= u

\* C9: once the lexer has read a character that starts no token the compile
\* has terminated with a failure status; no token is handed to the caller.
C9_UnknownCharIsFatal == UnknownRead => status = "exit1"

----------------------------------------------------------------------------
(* Register allocator claims *)

\* C6: every allocate_register call returns the lowest-index free slot and
\* marks that slot, and no other, as used; with no slot free it hands out no
\* register and the process ends with a failure status.
C6_AllocateLowestFree ==
    \A k \in 1..Len(alast.allocs) :
        LET e == alast.allocs[k]
            free == {i \in 0..(GLOBAL_REG_COUNT - 1) : e.pre[i] # 0}
        IN IF free # {}
           THEN /\ e.r \in free
                /\ \A j \in free : e.r <= j
                /\ e.post = [e.pre EXCEPT ![e.r] = 0]
                /\ ~e.fatal
           ELSE /\ e.r = asm_NoReg
                /\ e.post = e.pre
                /\ status = "exit1"
                /\ cg.free_reg = e.pre

\* an allocation with slots 0 and 2 in use and slots 1 and 3 free
C6_Witness ==
    \E k \in 1..Len(alast.allocs) :
        alast.allocs[k].pre = [i \in 0..(GLOBAL_REG_COUNT - 1) |-> i % 2] /\ alast.allocs[k].r = 1

\* an allocation with every slot in use
C6_Exhausted ==
    \E k \in 1..Len(alast.allocs) : alast.allocs[k].fatal /\ status = "exit1"

----------------------------------------------------------------------------
(* Symbol table claims *)

\* C7: symbol indices are dense, zero-based and stable: the n-th symbol ever
\* added (the four built-ins first) was handed index n-1, and at any later
\* time, also after the array has grown, find of its name and get of its
\* index still lead to it.
C7_IndicesDenseStable ==
    /\ sym.global_symbols_index = Len(added)
    /\ sym.inited => \A k \in 1..Len(BuiltinNames) : Len(added) >= k /\ added[k].name = BuiltinNames[k]
    /\ \A k \in 1..Len(added) :
          /\ added[k].index = k - 1
          /\ symtab_get_symbol(sym, k - 1).entry.sym_name = added[k].name
    /\ slast.op = "find" =>
          \A k \in 1..Len(added) : added[k].name = slast.name => slast.result = k - 1
    /\ slast.op = "get" => slast.name = added[slast.result + 1].name

\* the program's first identifier is found at index 4 after the array has grown
C7_Witness ==
    /\ Len(added) > GLOBAL_SYMBOL_SIZE + 1
    /\ sym.global_symbols.capacity = 2 * GLOBAL_SYMBOL_SIZE
    /\ slast.op = "find"
    /\ slast.name = UserName(1)
    /\ slast.result = Len(BuiltinNames)

\* C8: no two entries of the table carry the same name; adding a name that
\* has an entry, a built-in's included, ends the process with a failure
\* status and creates no entry.
C8_NoDuplicateNames ==
    /\ Cardinality({sym.global_symbols.buffer[i].sym_name : i \in 0..(sym.global_symbols_index - 1)})
          = sym.global_symbols_index
    /\ (slast.op = "add" /\ slast.present) =>
          /\ status = "exit1"
          /\ slast.result = 0 - 1
          /\ sym.global_symbols_index = slast.pre

\* the built-in print_ln has been added again
C8_Witness ==
    /\ slast.op = "add"
    /\ slast.present
    /\ slast.name = BuiltinNames[4]
    /\ status = "exit1"

\* the built-in at index 0 has been added again
C8_WitnessPrint ==
    /\ slast.op = "add"
    /\ slast.present
    /\ slast.name = BuiltinNames[1]
    /\ status = "exit1"


----------------------------------------------------------------------------
(* Parser and code generator claims *)

AllFree(f) == \A i \in 0..(GLOBAL_REG_COUNT - 1) : f[i] = 1

\* C1: whenever the code generator emits a function's epilogue, all four scratch
\* register slots are free, on the default zero-return path and after an explicit
\* return, for the first function and for every later one.
C1_EpilogueAllFree ==
    \A k \in 1..Len(gen.epilogues) : AllFree(gen.epilogues[k].free_reg)

\* C2: a statement that is generated with all four scratch registers free, and
\* whose generation finishes, leaves all four free again, whatever its kind.
C2_StatementBalanced ==
    \A k \in 1..Len(gen.stmts) :
        (AllFree(gen.stmts[k].pre) /\ gen.stmts[k].done) => AllFree(gen.stmts[k].post)

\* C4: the parser rejects a break statement with a fatal error exactly when no
\* loop body encloses it; a break in an outer loop's body after a complete
\* inner loop is accepted.
C4_BreakRejectedIffOutsideLoop ==
    ghost.last.op = "break" => (ghost.last.accepted <=> ghost.last.enclosed)

\* C5: the jmp emitted for a break goes to the end label of the nearest loop
\* around the break, a label that no other loop node has, and is never taken
\* from a wild parent pointer.
C5_BreakTargetsNearestLoop ==
    /\ \A k \in 1..Len(gen.breaks) :
          LET b == gen.breaks[k] IN
          /\ ~b.ub
          /\ \E e \in ghost.encl : \E fnode \in ghost.frame_node :
                /\ e[1] = b.node
                /\ fnode[1] = e[2]
                /\ <<fnode[2], b.target>> \in gen.loop_end
    /\ \A l1 \in gen.loop_end : \A l2 \in gen.loop_end : l1[2] = l2[2] => l1[1] = l2[1]

\* a break in an if in an inner loop in an outer loop, generated after both end labels were minted
C5_Witness ==
    \E k \in 1..Len(gen.breaks) :
        LET b == gen.breaks[k]
            glue == ast[b.node].parent
            if == ast[glue].parent
            inner == ast[if].parent
            outer == ast[inner].parent
        IN /\ ast[glue].type = "AST_GLUE"
           /\ ast[if].type = "AST_IF"
           /\ ASTCheckLoopContext(ast[inner].type)
           /\ ASTCheckLoopContext(ast[outer].type)
           /\ b.target = ast[inner].value
           /\ ast[outer].value # ast[inner].value
           /\ <<outer, ast[outer].value>> \in gen.loop_end

\* C10: the process ends with status 0 only if no error was reported.
C10_ExitZeroOnlyWithoutError ==
    status = "exit0" => errors = 0

----------------------------------------------------------------------------
(* Datatype claims *)

LongWithPointer(a, b) ==
    (a = DATATYPE_LONG /\ b.pointer_level > 0) \/ (b = DATATYPE_LONG /\ a.pointer_level > 0)

\* C11: for target and value built from void, char, int, long with pointer
\* levels 0..2, datatype_check_assign_expr_type is fatal exactly when the levels
\* differ and the pair is not long with a pointer, or both are pointers with
\* different base primitives, or either type is void, or value is wider than
\* target.
C11_CheckAssignFatalExactly ==
    (dt.op = "assign" /\ dt.called) =>
        (dt.fatal <=>
            \/ (dt.target.pointer_level # dt.value.pointer_level /\ ~LongWithPointer(dt.target, dt.value))
            \/ (dt.target.pointer_level > 0 /\ dt.value.pointer_level > 0 /\ dt.target.base_type # dt.value.base_type)
            \/ dt.target = DATATYPE_VOID
            \/ dt.value = DATATYPE_VOID
            \/ dt.value.size > dt.target.size)

\* C12: for T in char, int, long and k >= 1, k calls of pointer_of on T followed
\* by k one-level dereferences end at pointer level 0 with the width of T, every
\* type in between has width 64 and base T, and one more dereference is fatal.
C12_PointerOfThenDeref ==
    (dt.op = "chain" /\ dt.called) =>
        /\ dt.n < dt.k => (~dt.fatal /\ dt.value.size = 64 /\ dt.value.base_type = dt.target.name)
        /\ dt.n = dt.k => (~dt.fatal /\ dt.value.pointer_level = 0 /\ dt.value.size = dt.target.size)
        /\ dt.n = dt.k + 1 => dt.fatal

----------------------------------------------------------------------------
(* Expression type claims *)

ExprNodeTypes ==
    {"AST_INT_LIT", "AST_VAR", "AST_ADD", "AST_SUBTRACT", "AST_MULT", "AST_DIV", "AST_ADDRESSOF",
     "AST_PTRDREF", "AST_OFFSET_SCALE", "AST_FUNC_CALL", "AST_ASSIGN"} \cup CompTypes

\* C13: once a program has been parsed without a fatal error, every expression
\* node of the tree, the nodes made by the array-index desugaring included,
\* has a computed type (expr_type is not NULL).
C13_ExprNodesTyped ==
    (pc \in {"codegen", "done"}) =>
        \A k \in 1..Len(ast) : ast[k].type \in ExprNodeTypes => ast[k].expr_type # NoType

----------------------------------------------------------------------------
(* Label claims *)

LabelLines(id) == {i \in 1..Len(cg.out) : cg.out[i] = <<"label", id>>}
JumpLines == {i \in 1..Len(cg.out) : cg.out[i][1] \in {"jmp", "je", "jne"}}
\* the function a line belongs to: the number of function prologues emitted up to it
FuncOfLine(i) == Cardinality({j \in 1..i : cg.out[j][1] = "name"})
JumpTarget(i) == cg.out[i][Len(cg.out[i])]

\* C14: the label ids minted in a compile are pairwise distinct, each is defined
\* by exactly one label line of the output, and every jmp, je, jne emitted for an
\* if, a loop or a break goes to an id that is defined in the function that
\* holds the jump.
C14_LabelsUniqueAndLocal ==
    /\ \A id \in 0..(cg.label_count - 1) : Cardinality(LabelLines(id)) = 1
    /\ \A i \in 1..Len(cg.out) : cg.out[i][1] = "label" => cg.out[i][2] \in 0..(cg.label_count - 1)
    /\ \A i \in JumpLines : \E l \in LabelLines(JumpTarget(i)) : FuncOfLine(l) = FuncOfLine(i)

\* two functions have been generated, each with a jump, one of them a break out of a loop
C14_Witness ==
    /\ pc = "done"
    /\ \E i \in JumpLines : \E j \in JumpLines : FuncOfLine(i) = 1 /\ FuncOfLine(j) = 2
    /\ Len(gen.breaks) >= 1

----------------------------------------------------------------------------
(* Declaration and statement claims *)

\* C15: a function body can name the function's formal argument: parsing
\* return a + 1; in int f(int a) { ... } resolves a and is not a fatal error.
C15_FormalResolvedInBody ==
    (ghost.last.op = "return_arg" /\ NameA \in cfg.globals) => ghost.last.accepted

\* every function of the program has been handed to the code generator
AllGenerated == pc \in {"codegen", "done"} /\ gen.next = NULL

ForNodes == {k \in 1..Len(ast) : ast[k].type = "AST_FOR"}
ForInit(k) == ast[k].left
ForUpdate(k) == ast[ast[ast[k].left].next].next
EmptyBody(k) == \A b \in chain_nodes(ast, ast[k].right) : ast[b].type = "AST_EMPTY"

\* the lines of for node k: ls is the line of its start label s, le the line of its end label e
ForLines(k, ls, le) ==
    LET e == ast[k].value
        s == e - 1
    IN /\ cg.out[ls] = <<"label", s>>
       /\ cg.out[le] = <<"label", e>>
       /\ ast[ForInit(k)].type = "AST_ASSIGN" => (cg.out[ls - 2][1] = "mov" /\ cg.out[ls - 1][1] = "store_global")
       /\ cg.out[ls + 1][1] = "mov"
       /\ cg.out[ls + 2][1] = "cmp_imm"
       /\ cg.out[ls + 3] = <<"jne", e>>
       /\ le > ls + 4
       /\ cg.out[le - 1] = <<"jmp", s>>
       /\ EmptyBody(k) => le - 1 = ls + 4

\* C16: for (init; cond;) body is accepted and compiles to init, start label,
\* condition, conditional jump to the end label, body, jump to the start label,
\* end label; nothing is emitted for the update step.
C16_ForEmptyUpdate ==
    AllGenerated =>
        \A k \in ForNodes : ast[ForUpdate(k)].type = "AST_EMPTY" =>
            /\ status \in {"running", "exit0"}
            /\ <<k, ast[k].value>> \in gen.loop_end
            /\ \E ls \in 3..Len(cg.out) : \E le \in 3..Len(cg.out) : ForLines(k, ls, le)

\* for (x = 1; 1;) { ; } has been compiled
C16_Witness ==
    /\ pc = "done"
    /\ \E k \in ForNodes : /\ ast[ForInit(k)].type = "AST_ASSIGN"
                            /\ ast[ForUpdate(k)].type = "AST_EMPTY"
                            /\ EmptyBody(k)

StmtNodeTypes ==
    {"AST_VAR_DECL", "AST_EMPTY", "AST_IF", "AST_WHILE", "AST_DO_WHILE", "AST_FOR", "AST_BREAK",
     "AST_RETURN", "AST_ASSIGN", "AST_FUNC_DECL"}
\* the nodes that are in the chain of top-level declarations or in a chain below some node
Chained ==
    chain_nodes(ast, parser.root)
    \cup UNION {chain_nodes(ast, ast[j].left) \cup chain_nodes(ast, ast[j].right) : j \in 1..Len(ast)}

\* C18: the sibling chain of a block holds every statement node parsed in the
\* block, once and in source order (nodes are numbered in the order they are
\* made); no VAR_DECL node of int a, b; is dropped from it.
C18_ChainKeepsEveryStatement ==
    (pc \in {"codegen", "done"}) =>
        /\ \A k \in 1..Len(ast) : ast[k].type \in StmtNodeTypes => k \in Chained
        /\ \A k \in 1..Len(ast) : ast[k].next # NULL => ast[k].next > k

\* the INT_LIT factors of the desugared index expressions: PTRDREF(ADD(ADDRESSOF(VAR v), MULT(index, INT_LIT)))
IndexExprs ==
    {k \in 1..Len(ast) : /\ ast[k].type = "AST_PTRDREF"
                         /\ ast[ast[k].left].type = "AST_ADD"
                         /\ ast[ast[ast[k].left].left].type = "AST_ADDRESSOF"
                         /\ ast[ast[ast[k].left].right].type = "AST_MULT"}
IndexFactor(k) == ast[ast[ast[ast[k].left].right].right].value
IndexedSymbol(k) == SymEntry(sym, ast[ast[ast[ast[k].left].left].left].value)
\* bytes of one element of the array whose type is d
ElemBytes(d) ==
    IF d.pointer_level > 1 THEN 8 ELSE (CHOOSE b \in DtPrimitives : b.name = d.base_type).size \div 8

\* C20: in the desugaring of id[expr] the INT_LIT that multiplies the index is
\* the size in bytes of one element of id: 1 for char, 4 for int, 8 for long
\* and for pointers.
C20_IndexScaledByElementSize ==
    \A k \in IndexExprs :
        IndexedSymbol(k).data_type.pointer_level > 0 =>
            IndexFactor(k) = ElemBytes(IndexedSymbol(k).data_type)

----------------------------------------------------------------------------
(* Token-level claims *)

\* an '=' stands before the first ';', ',' or ')' of the upcoming tokens (TOK_EOF follows the last one)
AssignBeforeTerminator(toks) ==
    \E i \in 1..Len(toks) :
        /\ toks[i] = "TOK_ASSIGN"
        /\ \A j \in 1..(i - 1) : toks[j] \notin {"TOK_SEMICOLON", "TOK_COMMA", "TOK_RPAREN"}

\* C17: the expression entry takes the assignment path exactly when an '='
\* occurs before the first ';', ',', ')' or end of file of the upcoming tokens,
\* and the comparison path otherwise; so the 1 of int a = 1, b = 2; is parsed
\* as a comparison.
C17_AssignmentIffAssignBeforeTerminator ==
    (tk.op = "expr" /\ tk.called) =>
        (tk.path = "assignment" <=> AssignBeforeTerminator(tk.toks))

\* C19: decl_var accepts id init (, id init)* ; for every combination of the
\* initializer forms none, = expr and [INTLIT], reads it up to and including
\* the ';' and links one VAR_DECL node per identifier.
C19_DeclVarAcceptsEveryForm ==
    (tk.op = "decl" /\ tk.called) =>
        /\ tk.st = "ok"
        /\ tk.n = tk.ids
        /\ tk.pos = Len(tk.toks) + 1

----------------------------------------------------------------------------
(* Pointer arithmetic claims *)

ElementSize(ptr) ==
    IF ptr.pointer_level > 1 THEN 8 ELSE (CHOOSE d \in DtPrimitives : d.name = ptr.base_type).size \div 8

\* C21: an additive expression gets an OFFSET_SCALE node exactly when one of
\* its two operands is a pointer and the other is not; the node wraps the
\* operand that is not a pointer and its value is 8 for a pointer to pointer
\* and base width / 8 otherwise.
C21_OffsetScaleIffOnePointer ==
    (dt.op = "add" /\ dt.called) =>
        /\ dt.scale.side # "none" <=> ((dt.target.pointer_level > 0) # (dt.value.pointer_level > 0))
        /\ (dt.target.pointer_level > 0 /\ dt.value.pointer_level = 0) =>
               (dt.scale.side = "right" /\ dt.scale.offset = ElementSize(dt.target))
        /\ (dt.value.pointer_level > 0 /\ dt.target.pointer_level = 0) =>
               (dt.scale.side = "left" /\ dt.scale.offset = ElementSize(dt.value))

----------------------------------------------------------------------------
(* Block and return claims *)

\* C22: an empty block { } is accepted as a function body, an if or else
\* branch and a loop body: closing a block that holds no statement is not a
\* fatal error.
C22_EmptyBlockAccepted ==
    ghost.last.op = "empty_block" => ghost.last.accepted

\* the entries of the statement log made for return ;
BareReturns ==
    {k \in 1..Len(gen.stmts) : gen.stmts[k].type = "AST_RETURN" /\ ast[gen.stmts[k].node].left = NULL}

\* C23: return ; is accepted in a void function, and generating its RETURN
\* node, which has no operand, completes without an error and evaluates no
\* operand expression.
C23_BareReturnGenerated ==
    \A k \in BareReturns : gen.stmts[k].done /\ status # "crash"

\* the nodes below node n, n and its later siblings included
RECURSIVE Subtree(_)
Subtree(n) ==
    IF n = NULL THEN {}
    ELSE {n} \cup Subtree(ast[n].left) \cup Subtree(ast[n].right) \cup Subtree(ast[n].next)

EpilogueLines == {i \in 1..Len(cg.out) : cg.out[i] = <<"pop_rbp">>}
\* the line of the epilogue of the j-th function generated
EpilogueLine(j) == CHOOSE e \in EpilogueLines : Cardinality({x \in EpilogueLines : x <= e}) = j

\* mov r, 0 and mov al, r stand right before line e
DefaultReturnBefore(e) ==
    /\ e > 2
    /\ cg.out[e - 1][1] = "mov_reg" /\ cg.out[e - 1][2] = asm_RAX /\ cg.out[e - 1][4] = 8
    /\ cg.out[e - 2] = <<"mov", cg.out[e - 1][3], 0>>

\* a RETURN node of the body of function node f has been generated
ReturnGeneratedIn(f) ==
    \E k \in 1..Len(gen.stmts) :
        gen.stmts[k].type = "AST_RETURN" /\ gen.stmts[k].node \in Subtree(ast[f].left)

\* C24: for every function generated, the default zero-return sequence stands
\* before the epilogue exactly when no RETURN node of that function's own body
\* was generated; a return of an earlier function does not suppress it.
C24_DefaultReturnIffNoReturn ==
    \A j \in 1..Len(gen.epilogues) :
        DefaultReturnBefore(EpilogueLine(j)) <=> ~ReturnGeneratedIn(gen.epilogues[j].node)

\* a function with a return has been generated before a function without one
C24_Witness ==
    /\ pc = "done"
    /\ Len(gen.epilogues) = 2
    /\ ReturnGeneratedIn(gen.epilogues[1].node)
    /\ ~ReturnGeneratedIn(gen.epilogues[2].node)
    /\ DefaultReturnBefore(EpilogueLine(2))

LabelLine(l) == CHOOSE i \in 1..Len(cg.out) : cg.out[i] = <<"label", l>>
\* the line of the first instruction executed from line i on: labels are passed, jmp is followed
RECURSIVE NextInstr(_, _)
NextInstr(i, fuel) ==
    IF fuel = 0 \/ i > Len(cg.out) THEN i
    ELSE IF cg.out[i][1] = "label" THEN NextInstr(i + 1, fuel - 1)
    ELSE IF cg.out[i][1] = "jmp" THEN NextInstr(LabelLine(cg.out[i][2]), fuel - 1)
    ELSE i

\* C25: in the emitted code of a function, the instruction executed after the
\* last instruction of a return statement is the function's epilogue; no
\* instruction of a statement that follows the return in the source runs.
C25_ReturnReachesEpilogue ==
    \A k \in 1..Len(gen.stmts) :
        (gen.stmts[k].type = "AST_RETURN" /\ gen.stmts[k].done /\ gen.stmts[k].line < Len(cg.out)) =>
            \E i \in {NextInstr(gen.stmts[k].line + 1, Len(cg.out))} :
                i <= Len(cg.out) /\ cg.out[i] = <<"pop_rbp">>

----------------------------------------------------------------------------
(* Pointer read claims *)

\* the number of PTRDREF nodes from node n down its left operands
RECURSIVE DerefDepth(_)
DerefDepth(n) == IF n # NULL /\ ast[n].type = "AST_PTRDREF" THEN 1 + DerefDepth(ast[n].left) ELSE 0

\* the m-th PTRDREF node counted from node n, n being the first
RECURSIVE DerefNode(_, _)
DerefNode(n, m) == IF m = 1 THEN n ELSE DerefNode(ast[n].left, m - 1)

\* the generated assignments whose value is a PTRDREF node
ValueDerefs ==
    {k \in 1..Len(gen.stmts) : /\ gen.stmts[k].type = "AST_ASSIGN" /\ gen.stmts[k].done
                               /\ ast[ast[gen.stmts[k].node].right].type = "AST_PTRDREF"}

\* the lines of statement k that load from memory
LoadLines(k) == {i \in gen.stmts[k].first..gen.stmts[k].line : cg.out[i][1] = "load_mem"}

\* the j-th line after the load of the variable in statement k loads the width of node n
\* from the address held in the register the line before it wrote
LoadsResultOf(k, j, n) ==
    \E i \in {gen.stmts[k].first + 1 + j} :
        /\ i <= gen.stmts[k].line
        /\ cg.out[i][1] = "load_mem"
        /\ cg.out[i][3] = cg.out[i - 1][2]
        /\ cg.out[i][4] = ast[n].expr_type.size

\* the PTRDREF nodes of the value of statement k whose result type is a primitive
PrimitiveDerefs(k) ==
    {m \in 1..DerefDepth(ast[gen.stmts[k].node].right) :
        ast[DerefNode(ast[gen.stmts[k].node].right, m)].expr_type.pointer_level = 0}

\* C26: a PTRDREF value node whose result type is still a pointer emits no
\* memory load and one whose result type is a primitive emits exactly one load:
\* the loads of an assignment are as many as the primitive PTRDREF nodes of its value.
C26_NoLoadForPointerResult ==
    \A k \in ValueDerefs : Cardinality(LoadLines(k)) = Cardinality(PrimitiveDerefs(k))

\* C26 (amended): every PTRDREF value node, its result a pointer or a primitive,
\* emits exactly one load of its result's width (64 bits for a pointer) from the
\* address its inner expression left in a register.
C26_OneLoadPerDeref ==
    \A k \in ValueDerefs :
        \E d \in {DerefDepth(ast[gen.stmts[k].node].right)} :
            /\ Cardinality(LoadLines(k)) = d
            /\ \A m \in 1..d : LoadsResultOf(k, d - m + 1, DerefNode(ast[gen.stmts[k].node].right, m))

\* p = *pp; or x = **pp; has been generated: a PTRDREF with a pointer result was used as a value
C26_Witness ==
    /\ pc = "done"
    /\ \E k \in ValueDerefs : PrimitiveDerefs(k) # 1..DerefDepth(ast[gen.stmts[k].node].right)
    /\ \E k \in ValueDerefs : PrimitiveDerefs(k) # {}

----------------------------------------------------------------------------
(* Type invariant claims *)

\* the types held by the nodes parsed and by the symbols added so far
CreatedTypes ==
    {ast[n].expr_type : n \in 1..Len(ast)}
    \cup {sym.global_symbols.buffer[i].data_type : i \in 0..(sym.global_symbols_index - 1)}

\* the types given by a declaration id[N] to its symbol
ArrayTypes ==
    {sym.global_symbols.buffer[i].data_type :
        i \in {j \in 0..(sym.global_symbols_index - 1) : sym.global_symbols.buffer[j].sym_name[1] = "arr"}}

\* C27: every type created during a compile has width 64 whenever its
\* pointer-level is above 0, array-length 0 when it is not an array type (the
\* types made by datatype_get_pointer_of and datatype_deref_pointer included)
\* and array-length above 0 when a declaration id[N] made it; the primitive
\* descriptors are those of the table.
C27_TypeInvariant ==
    /\ \A ty \in CreatedTypes :
           /\ ty.pointer_level > 0 => ty.size = 64
           /\ ty \notin ArrayTypes => ty.array_size = 0
           /\ ty \in ArrayTypes => ty.array_size > 0
    /\ \A ty \in CreatedTypes : ty.pointer_level = 0 /\ ty.name # "NULL" /\ ty.array_size = 0 => ty \in DtPrimitives

----------------------------------------------------------------------------
(* Register allocator claims *)

\* the last call gave back a handle whose slot was free, or rax
BadFree ==
    /\ alast.op = "free"
    /\ alast.r >= 0
    /\ alast.r >= GLOBAL_REG_COUNT \/ alast.pre[alast.r] # 0

\* C28: giving back a scratch register whose slot is already free, or the
\* accumulator handle, is a fatal error; the slot of every handle a live value
\* holds is marked in use, and allocate_register never returns a handle that
\* a live value holds.
C28_AllocatorSafe ==
    /\ BadFree => status = "exit1" /\ cg.free_reg = alast.pre
    /\ \A r \in holds : cg.free_reg[r] = 0
    /\ alast.op = "allocate" /\ alast.r # asm_NoReg => alast.r \notin alast.held

\* a handle was given back twice: the second call met a free slot while other handles are held
C28_Witness ==
    /\ BadFree
    /\ alast.r < GLOBAL_REG_COUNT
    /\ holds # {}

----------------------------------------------------------------------------
(* Lookahead buffer claims *)

\* C29: after any sequence of scan, peek and cache calls every slot used to
\* read or write the lookahead ring buffer lies in 0..254, buffer_size lies in
\* 0..255, and the slot the next push writes is the slot the pop that hands
\* the pushed token out will read.
C29_RingSlotsInRange ==
    /\ (last.op \in {"peek", "cache"} /\ last.slot # 0 - 2) => last.slot \in 0..(MAX_PUTBACK_BUFFER_SIZE - 1)
    /\ scanner.buffer_head \in 0..(MAX_PUTBACK_BUFFER_SIZE - 1)
    /\ scanner.buffer_size \in 0..MAX_PUTBACK_BUFFER_SIZE
    /\ scanner.buffer_tail - 1 = (scanner.buffer_head + scanner.buffer_size) % MAX_PUTBACK_BUFFER_SIZE

----------------------------------------------------------------------------
(* Termination claims *)

====
